---- MODULE Spec2Model ----
(***************************************************************************)
(* A model of package fits (siravan/fits): the block Reader, the header    *)
(* parser NewHeader with processString, the driver Open, the image loader  *)
(* loadData with its pixel accessors and Stats, and the table loader       *)
(* loadTable with the field accessors of accessorBin and accessorText.     *)
(*                                                                         *)
(* Bytes are integers 0..255.  A Go string or []byte is a sequence of      *)
(* bytes; Go's 0-based index i is index i+1 of the sequence.               *)
(***************************************************************************)
EXTENDS Integers, Sequences, FiniteSets, TLC

VARIABLES
    src,    \* the underlying io.Reader's content: a sequence of segments
    pos,    \* number of bytes the underlying io.Reader has delivered
    b,      \* the Reader of Open / of the Read calls: [buf, elem, left, right, eof]
    pc,     \* position of the running operation
    fits,   \* Open's result under construction: a sequence of Units
    err,    \* Open's named result err
    ret,    \* what the last call returned
    calls,  \* number of calls made so far
    inp,    \* the parameters the input was built from
    lerr,   \* the err declared inside Open's loop by  h, err := b.NewHeader()
    threads \* the goroutines inside a FieldFunc: their position and local variables

vars == <<src, pos, b, pc, fits, err, ret, calls, inp, lerr, threads>>

(***************************************************************************)
(* Characters                                                              *)
(***************************************************************************)
Ascii ==
    <<" ", "!", "dquote", "#", "$", "%", "&", "'", "(", ")", "*", "+", ",", "-", ".", "/",
      "0", "1", "2", "3", "4", "5", "6", "7", "8", "9", ":", ";", "<", "=", ">", "?",
      "@", "A", "B", "C", "D", "E", "F", "G", "H", "I", "J", "K", "L", "M", "N", "O",
      "P", "Q", "R", "S", "T", "U", "V", "W", "X", "Y", "Z", "[", "backslash", "]", "^", "_",
      "backtick", "a", "b", "c", "d", "e", "f", "g", "h", "i", "j", "k", "l", "m", "n", "o",
      "p", "q", "r", "s", "t", "u", "v", "w", "x", "y", "z", "{", "|", "}", "~">>

\* the byte of a one-character string
Ord(c) == 31 + (CHOOSE i \in 1..Len(Ascii) : Ascii[i] = c)

\* the bytes of a text given as a tuple of one-character strings
Str(t) == [i \in 1..Len(t) |-> Ord(t[i])]

Min(x, y) == IF x <= y THEN x ELSE y
Max(x, y) == IF x >= y THEN x ELSE y

Repeat(x, n) == [i \in 1..n |-> x]

chSpace == 32
chQuote == 39
chSlash == 47

(***************************************************************************)
(* The byte source behind the Reader (an io.Reader)                        *)
(***************************************************************************)
BlockSize == 2880
CardLen == 80
CardsPerBlock == 36

Spaces80 == Repeat(chSpace, CardLen)
Zeros2880 == Repeat(0, BlockSize)

\* one 80-character card from its text, padded with spaces
PadCard(c) == SubSeq(c \o Spaces80, 1, CardLen)

RECURSIVE CardBlock(_, _)
CardBlock(cards, i) ==
    IF i > CardsPerBlock THEN <<>>
    ELSE (IF i <= Len(cards) THEN PadCard(cards[i]) ELSE Spaces80) \o CardBlock(cards, i + 1)

RECURSIVE ZeroPad(_, _)
ZeroPad(bs, n) ==
    IF n <= Len(bs) THEN SubSeq(bs, 1, n)
    ELSE IF n - Len(bs) >= BlockSize THEN ZeroPad(bs \o Zeros2880, n)
    ELSE bs \o SubSeq(Zeros2880, 1, n - Len(bs))

\* a byte pattern that does not repeat from one block to the next
RampLen == 3 * BlockSize
Ramp == [i \in 1..RampLen |-> i % 251]

\* the bytes of one segment of the source:
\*   [t |-> "cards", cards |-> texts]    a header block of 36 cards
\*   [t |-> "bytes", bs |-> bytes, len |-> n]   bs, padded with zeros or cut to n bytes
\*   [t |-> "ramp", len |-> n]           the first n bytes of Ramp
SegBytes(seg) ==
    IF seg.t = "cards" THEN CardBlock(seg.cards, 1)
    ELSE IF seg.t = "ramp" THEN SubSeq(Ramp, 1, seg.len)
    ELSE ZeroPad(seg.bs, seg.len)

RECURSIVE FlatFrom(_, _)
FlatFrom(s, i) == IF i > Len(s) THEN <<>> ELSE SegBytes(s[i]) \o FlatFrom(s, i + 1)

\* the whole byte stream of a source
Flat(s) == FlatFrom(s, 1)

\* One call reader.Read(buf) of the underlying io.Reader at position ps, under the
\* delivery policy io = [chunk, dataEOF, kind]: it delivers at most chunk bytes; at
\* the end of the stream it answers io.EOF, either alone or, when io.dataEOF, together
\* with the last bytes (both are allowed by io.Reader).  kind "nil" is the nil reader
\* of a Reader built over a table blob.
Deliver(all, ps, cap, io) ==
    LET rem == Len(all) - ps
        k   == Min(Min(cap, io.chunk), rem)
    IN  IF rem = 0 THEN [k |-> 0, data |-> <<>>, err |-> "EOF"]
        ELSE [k |-> k, data |-> SubSeq(all, ps + 1, ps + k),
              err |-> IF io.dataEOF /\ k = rem THEN "EOF" ELSE "nil"]

\* a source that breaks after io.failAt bytes: it delivers the bytes before that point
\* and then answers an error that is not io.EOF, however often it is asked
Broken(r) == IF r.err = "EOF" THEN [r EXCEPT !.err = "unexpected"] ELSE r

SourceRead(s, ps, cap, io) ==
    IF io.kind = "broken"
    THEN Broken(Deliver(SubSeq(Flat(s), 1, Min(io.failAt, Len(Flat(s)))), ps, cap, io))
    ELSE Deliver(Flat(s), ps, cap, io)

\* the delivery of bytes.Reader and os.File: as much as fits, then EOF alone
FullIO == [chunk |-> BlockSize, dataEOF |-> FALSE, kind |-> "reader"]

(***************************************************************************)
(* Reader                                                                  *)
(***************************************************************************)
ElemSize == 8

NewReader == [buf |-> Zeros2880, elem |-> Repeat(0, ElemSize), left |-> 0, right |-> 0,
              eof |-> FALSE]

\* b.right, err = b.reader.Read(b.buf); b.left = 0  (Reader.Read)
RefillKeepLeft(rd, r) ==
    [rd EXCEPT !.buf = r.data \o SubSeq(rd.buf, r.k + 1, Len(rd.buf)), !.right = r.k]

Refill(rd, r) ==
    [rd EXCEPT !.buf = r.data \o SubSeq(rd.buf, r.k + 1, Len(rd.buf)),
               !.right = r.k, !.left = 0]

\* Reader.Read(p) with len(p) = Len(p): the loop of copy and refill.  rd is the Reader,
\* ps the source position, n the bytes copied so far.  The result holds the Reader,
\* the source position, p as filled, n, and whether the call panicked.
RECURSIVE ReadLoop(_, _, _, _, _, _)

\* the rest of one iteration once reader.Read has answered r: refill, then either
\* stop at io.EOF, panic("Error in Reader.Read") on another error, or go round the
\* loop again
ReadRefilled(s, rd1, ps, p1, n1, io, r) ==
    IF r.err = "EOF"
    THEN [b |-> [Refill(rd1, r) EXCEPT !.eof = TRUE], pos |-> ps + r.k, p |-> p1, n |-> n1,
          err |-> "nil", panic |-> FALSE]
    ELSE IF r.err # "nil"
    THEN [b |-> Refill(rd1, r), pos |-> ps + r.k, p |-> p1, n |-> n1, err |-> "nil",
          panic |-> TRUE]
    ELSE ReadLoop(s, Refill(rd1, r), ps + r.k, p1, n1, io)

\* (b.buf[b.left:b.right] panics when b.left is negative, above b.right, or b.right
\* is beyond the buffer, whatever len(p) is)
ReadLoop(s, rd, ps, p, n, io) ==
    IF rd.left < 0 \/ rd.left > rd.right \/ rd.right > Len(rd.buf)
    THEN [b |-> rd, pos |-> ps, p |-> p, n |-> n, err |-> "nil", panic |-> TRUE]
    ELSE
    LET k   == Min(Len(p) - n, rd.right - rd.left)
        p1  == SubSeq(p, 1, n) \o SubSeq(rd.buf, rd.left + 1, rd.left + k)
                   \o SubSeq(p, n + k + 1, Len(p))
        n1  == n + k
        rd1 == [rd EXCEPT !.left = rd.left + k]
    IN  IF n1 = Len(p)
        THEN [b |-> rd1, pos |-> ps, p |-> p1, n |-> n1, err |-> "nil", panic |-> FALSE]
        ELSE IF io.kind = "nil"
        THEN [b |-> rd1, pos |-> ps, p |-> p1, n |-> n1, err |-> "nil", panic |-> TRUE]
        ELSE ReadRefilled(s, rd1, ps, p1, n1, io, SourceRead(s, ps, Len(rd.buf), io))

Read(s, rd, ps, p, io) == ReadLoop(s, rd, ps, p, 0, io)

IsEOF(rd) == rd.eof

\* the next block read, the cursor left at its start
PageReadNotSkipped(rd, ps, r) ==
    [b |-> [rd EXCEPT !.buf = r.data \o SubSeq(rd.buf, r.k + 1, Len(rd.buf)),
                      !.right = r.k, !.left = 0],
     pos |-> ps + r.k, buf |-> r.data \o SubSeq(rd.buf, r.k + 1, Len(rd.buf)),
     err |-> r.err]

\* Reader.NextPage: drops the rest of the block and reads the next one
PageRead(rd, ps, r) ==
    [b |-> [rd EXCEPT !.buf = r.data \o SubSeq(rd.buf, r.k + 1, Len(rd.buf)),
                      !.right = r.k, !.left = r.k],
     pos |-> ps + r.k, buf |-> r.data \o SubSeq(rd.buf, r.k + 1, Len(rd.buf)),
     err |-> r.err]

\* the page read without moving on in the source
NextPageSameBlock(s, rd, ps, io) ==
    [PageRead(rd, ps, SourceRead(s, ps, Len(rd.buf), io)) EXCEPT !.pos = ps]

NextPage(s, rd, ps, io) == PageRead(rd, ps, SourceRead(s, ps, Len(rd.buf), io))

\* a typed read: Read(b.elem[0:w]), then the value decoded from b.elem[0:w]
ElemRead(rd, w, r) ==
    [b |-> [r.b EXCEPT !.elem = r.p \o SubSeq(rd.elem, w + 1, Len(rd.elem))],
     pos |-> r.pos, bytes |-> r.p, n |-> r.n, panic |-> r.panic]

ReadElem(s, rd, ps, w, io) == ElemRead(rd, w, Read(s, rd, ps, SubSeq(rd.elem, 1, w), io))

\* big-endian unsigned value of a byte sequence
RECURSIVE BigEndian(_)
BigEndian(bs) ==
    IF bs = <<>> THEN 0 ELSE BigEndian(SubSeq(bs, 1, Len(bs) - 1)) * 256 + bs[Len(bs)]

\* the unsigned value of bs is below 2^31
FitsInt(bs) ==
    /\ \A i \in 1..(Len(bs) - 4) : bs[i] = 0
    /\ Len(bs) >= 4 => bs[Len(bs) - 3] < 128

\* the two's complement value of bs is within 32 bits: its leading bytes repeat the sign
SignExtended(bs) ==
    /\ \A i \in 1..(Len(bs) - 4) : bs[i] = (IF bs[1] >= 128 THEN 255 ELSE 0)
    /\ Len(bs) > 4 => (bs[Len(bs) - 3] >= 128) = (bs[1] >= 128)

\* the two's complement value of a big-endian byte sequence, intN(uintN(...)).
\* Computed on the complement when the sign bit is set, so that values of small
\* magnitude are exact in any width.
Signed(bs) ==
    IF bs[1] >= 128 THEN -(BigEndian([i \in 1..Len(bs) |-> 255 - bs[i]])) - 1
    ELSE BigEndian(bs)

(***************************************************************************)
(* Header values and keys                                                  *)
(***************************************************************************)
\* a value of Keys (interface{}): its dynamic type and its value
vNil == [t |-> "nil", v |-> <<>>]
vInt(n) == [t |-> "int", v |-> n]
vStr(bs) == [t |-> "string", v |-> bs]
vBool(x) == [t |-> "bool", v |-> x]
vFloat(text) == [t |-> "float64", v |-> text]
vComplex(text) == [t |-> "complex128", v |-> text]

NoKeys == <<>>
NoUnits == <<>>

Has(Keys, k) == k \in DOMAIN Keys

\* Keys[k] = v
Put(Keys, k, v) == [x \in DOMAIN Keys \cup {k} |-> IF x = k THEN v ELSE Keys[x]]

\* v, ok := Keys[k].(int): ok
IsInt(Keys, k) == Has(Keys, k) /\ Keys[k].t = "int"
IsString(Keys, k) == Has(Keys, k) /\ Keys[k].t = "string"

Digits == 48..57

\* fmt.Sprintf("%d", n)
RECURSIVE NatToStr(_)
NatToStr(n) == IF n < 10 THEN <<48 + n>> ELSE NatToStr(n \div 10) \o <<48 + (n % 10)>>

IntToStr(n) == IF n < 0 THEN <<45>> \o NatToStr(-n) ELSE NatToStr(n)

\* Nth(prefix, n): fmt.Sprintf("%s%d", prefix, n)
Nth(prefix, n) == prefix \o IntToStr(n)

kSIMPLE   == Str(<<"S", "I", "M", "P", "L", "E">>)
kXTENSION == Str(<<"X", "T", "E", "N", "S", "I", "O", "N">>)
kBITPIX   == Str(<<"B", "I", "T", "P", "I", "X">>)
kNAXIS    == Str(<<"N", "A", "X", "I", "S">>)
kPCOUNT   == Str(<<"P", "C", "O", "U", "N", "T">>)
kGCOUNT   == Str(<<"G", "C", "O", "U", "N", "T">>)
kBLANK    == Str(<<"B", "L", "A", "N", "K">>)
kEND      == Str(<<"E", "N", "D">>)
kTFIELDS  == Str(<<"T", "F", "I", "E", "L", "D", "S">>)
kTFORM    == Str(<<"T", "F", "O", "R", "M">>)
kTBCOL    == Str(<<"T", "B", "C", "O", "L">>)
kTTYPE    == Str(<<"T", "T", "Y", "P", "E">>)
kTDISP    == Str(<<"T", "D", "I", "S", "P">>)
kCOL      == Str(<<"C", "O", "L">>)
sIMAGE    == Str(<<"I", "M", "A", "G", "E">>)
sTABLE    == Str(<<"T", "A", "B", "L", "E">>)
sBINTABLE == Str(<<"B", "I", "N", "T", "A", "B", "L", "E">>)

(***************************************************************************)
(* Go's utf8, strings and strconv functions used by the parser             *)
(***************************************************************************)
\* s[i] is a continuation byte of UTF-8
IsCont(s, i) == i <= Len(s) /\ s[i] \in 128..191

\* the second byte of an encoding that starts at s[i] is within lo..hi
Second(s, i, lo, hi) == i + 1 <= Len(s) /\ s[i + 1] \in lo..hi

\* the length of the UTF-8 encoding at s[i], 0 when the bytes there are none
\* (a stray or missing continuation byte, an overlong form, a surrogate, a value
\* above U+10FFFF)
EncodingLen(s, i) ==
    IF s[i] < 128 THEN 1
    ELSE IF s[i] \in 194..223 THEN (IF IsCont(s, i + 1) THEN 2 ELSE 0)
    ELSE IF s[i] = 224 THEN (IF Second(s, i, 160, 191) /\ IsCont(s, i + 2) THEN 3 ELSE 0)
    ELSE IF s[i] = 237 THEN (IF Second(s, i, 128, 159) /\ IsCont(s, i + 2) THEN 3 ELSE 0)
    ELSE IF s[i] \in 225..239 THEN (IF IsCont(s, i + 1) /\ IsCont(s, i + 2) THEN 3 ELSE 0)
    ELSE IF s[i] = 240
    THEN (IF Second(s, i, 144, 191) /\ IsCont(s, i + 2) /\ IsCont(s, i + 3) THEN 4 ELSE 0)
    ELSE IF s[i] \in 241..243
    THEN (IF IsCont(s, i + 1) /\ IsCont(s, i + 2) /\ IsCont(s, i + 3) THEN 4 ELSE 0)
    ELSE IF s[i] = 244
    THEN (IF Second(s, i, 128, 143) /\ IsCont(s, i + 2) /\ IsCont(s, i + 3) THEN 4 ELSE 0)
    ELSE 0

RuneError == 65533

\* the rune of an encoding of n bytes at s[i]
RuneValue(s, i, n) ==
    IF n = 1 THEN s[i]
    ELSE IF n = 2 THEN (s[i] - 192) * 64 + (s[i + 1] - 128)
    ELSE IF n = 3 THEN (s[i] - 224) * 4096 + (s[i + 1] - 128) * 64 + (s[i + 2] - 128)
    ELSE (s[i] - 240) * 262144 + (s[i + 1] - 128) * 4096 + (s[i + 2] - 128) * 64
             + (s[i + 3] - 128)

\* utf8.DecodeRuneInString(s[i:]) for i within s: the rune and its width; bytes that
\* are no encoding give RuneError of width 1
DecodeRune(s, i) ==
    IF EncodingLen(s, i) = 0 THEN [r |-> RuneError, w |-> 1]
    ELSE [r |-> RuneValue(s, i, EncodingLen(s, i)), w |-> EncodingLen(s, i)]

\* where utf8.DecodeLastRuneInString looks for the start of the last rune of a
\* non-empty s: the nearest byte before the last one that is no continuation byte,
\* no further than three bytes before it
LastRuneStart(s) ==
    LET lim  == Max(Len(s) - 3, 1)
        cand == {j \in lim..(Len(s) - 1) : s[j] \notin 128..191}
    IN  IF cand = {} THEN lim ELSE CHOOSE j \in cand : \A k \in cand : k <= j

\* utf8.DecodeLastRuneInString(s) for a non-empty s
DecodeLastRune(s) ==
    IF s[Len(s)] < 128 THEN [r |-> s[Len(s)], w |-> 1]
    ELSE IF DecodeRune(s, LastRuneStart(s)).w = Len(s) - LastRuneStart(s) + 1
    THEN DecodeRune(s, LastRuneStart(s))
    ELSE [r |-> RuneError, w |-> 1]

\* utf8.RuneCountInString(s[i:]) plus n
RECURSIVE RuneCountFrom(_, _, _)
RuneCountFrom(s, i, n) ==
    IF i > Len(s) THEN n ELSE RuneCountFrom(s, i + DecodeRune(s, i).w, n + 1)

RuneCount(s) == RuneCountFrom(s, 1, 0)

\* the bytes of the first n runes of s[i:], counted in bytes of s from its start
RECURSIVE RunesEnd(_, _, _)
RunesEnd(s, i, n) ==
    IF n <= 0 \/ i > Len(s) THEN i - 1 ELSE RunesEnd(s, i + DecodeRune(s, i).w, n - 1)

\* utf8.EncodeRune for the rune found at s[i], as bytes.Buffer.WriteRune appends it:
\* the encoding as it stands, or the one of U+FFFD for bytes that are none
RuneBytes(s, i) ==
    IF EncodingLen(s, i) = 0 THEN <<239, 191, 189>>
    ELSE SubSeq(s, i, i + EncodingLen(s, i) - 1)

\* unicode.IsSpace (and the isSpace of fmt's scanner): Unicode's White_Space runes
IsSpace(r) ==
    r \in (9..13) \cup {32, 133, 160, 5760} \cup (8192..8202)
             \cup {8232, 8233, 8239, 8287, 12288}

RECURSIVE TrimLeftSpace(_)
TrimLeftSpace(s) ==
    IF s # <<>> /\ IsSpace(DecodeRune(s, 1).r)
    THEN TrimLeftSpace(SubSeq(s, 1 + DecodeRune(s, 1).w, Len(s)))
    ELSE s

RECURSIVE TrimRightSpace(_)
TrimRightSpace(s) ==
    IF s # <<>> /\ IsSpace(DecodeLastRune(s).r)
    THEN TrimRightSpace(SubSeq(s, 1, Len(s) - DecodeLastRune(s).w))
    ELSE s

\* strings.TrimSpace: the white space of Unicode cut from both ends, rune by rune
TrimSpace(s) == TrimRightSpace(TrimLeftSpace(s))

\* strings.TrimRight(s, " ")
RECURSIVE TrimRightBlanks(_)
TrimRightBlanks(s) ==
    IF s # <<>> /\ s[Len(s)] = chSpace THEN TrimRightBlanks(SubSeq(s, 1, Len(s) - 1)) ELSE s

\* strings.IndexByte-like searches; 0-based index, -1 when absent
IndexOf(s, c) ==
    IF \E i \in 1..Len(s) : s[i] = c
    THEN (CHOOSE i \in 1..Len(s) : s[i] = c /\ \A j \in 1..(i - 1) : s[j] # c) - 1
    ELSE -1

\* strings.IndexAny(s, chars)
IndexAny(s, chars) ==
    IF \E i \in 1..Len(s) : s[i] \in chars
    THEN (CHOOSE i \in 1..Len(s) : s[i] \in chars /\ \A j \in 1..(i - 1) : s[j] \notin chars) - 1
    ELSE -1

\* strings.ContainsAny(s, chars)
ContainsAny(s, chars) == \E i \in 1..Len(s) : s[i] \in chars

\* strings.Replace(s, old, new, 1) for one-byte old and new
ReplaceFirst(s, old, new) ==
    LET j == IndexOf(s, old)
    IN  IF j = -1 THEN s ELSE [s EXCEPT ![j + 1] = new]

MaxInt32 == 2147483647

MinInt32 == -MaxInt32 - 1

\* the value of a digit string, or MaxInt32 when it exceeds MaxInt32
RECURSIVE DigitsValue(_, _, _)
DigitsValue(s, i, acc) ==
    IF i > Len(s) THEN acc
    ELSE LET d == s[i] - 48
         IN  IF acc > (MaxInt32 - d) \div 10 THEN MaxInt32
             ELSE DigitsValue(s, i + 1, acc * 10 + d)

\* the value of a digit string does not exceed MaxInt32
RECURSIVE DigitsFit(_, _, _)
DigitsFit(s, i, acc) ==
    IF i > Len(s) THEN TRUE
    ELSE IF acc > (MaxInt32 - (s[i] - 48)) \div 10 THEN FALSE
    ELSE DigitsFit(s, i + 1, acc * 10 + (s[i] - 48))

\* the digits s starts with
RECURSIVE LeadingDigits(_)
LeadingDigits(s) ==
    IF s = <<>> \/ s[1] \notin Digits THEN <<>> ELSE <<s[1]>> \o LeadingDigits(Tail(s))

RECURSIVE DropZeros(_)
DropZeros(s) == IF s # <<>> /\ s[1] = 48 THEN DropZeros(Tail(s)) ELSE s

sMaxUint32 == <<52, 50, 57, 52, 57, 54, 55, 50, 57, 53>>       \* "4294967295"

\* the value of the digit string ds is above 2^32 - 1, where ParseUint of 32 bits
\* stops with a range error
ExceedsUint32(ds) ==
    LET t == DropZeros(ds)
    IN  \/ Len(t) > 10
        \/ /\ Len(t) = 10
           /\ \E i \in 1..10 : t[i] > sMaxUint32[i] /\ \A j \in 1..(i - 1) : t[j] = sMaxUint32[j]

\* x, _ := strconv.ParseInt(s, 10, 32): the value; on a range error the nearest bound
\* (2^31 - 1, or -2^31 after a minus sign); on a syntax error 0.  ParseUint reads the
\* bytes in turn, so the digits before a wrong byte give a range error when they are
\* above 2^32 - 1 before the wrong byte gives a syntax error.
ParseInt32(s) ==
    LET neg  == s # <<>> /\ s[1] = 45
        body == IF s # <<>> /\ s[1] \in {43, 45} THEN Tail(s) ELSE s
        run  == LeadingDigits(body)
    IN  IF body = <<>> THEN 0
        ELSE IF ExceedsUint32(run) THEN (IF neg THEN MinInt32 ELSE MaxInt32)
        ELSE IF Len(run) < Len(body) THEN 0
        ELSE IF DigitsFit(run, 1, 0)
        THEN (IF neg THEN -DigitsValue(run, 1, 0) ELSE DigitsValue(run, 1, 0))
        ELSE (IF neg THEN MinInt32 ELSE MaxInt32)

(***************************************************************************)
(* processString and NewHeader                                             *)
(***************************************************************************)
\* processString(s): the 3-state scanner of a quoted string.  for _, char := range s
\* walks s rune by rune, and buf.WriteRune(char) writes the encoding of char, which
\* for bytes that are no UTF-8 is the one of U+FFFD.
RECURSIVE processStringLoop(_, _, _, _)
processStringLoop(s, i, state, buf) ==
    IF i > Len(s) THEN [v |-> <<>>, err |-> "String ends prematurely"]
    ELSE IF state = 0
    THEN IF s[i] # chQuote THEN [v |-> <<>>, err |-> "String does not start with a quote"]
         ELSE processStringLoop(s, i + 1, 1, buf)
    ELSE IF state = 1
    THEN IF s[i] = chQuote THEN processStringLoop(s, i + 1, 2, buf)
         ELSE processStringLoop(s, i + DecodeRune(s, i).w, 1, buf \o RuneBytes(s, i))
    ELSE IF s[i] = chQuote THEN processStringLoop(s, i + 1, 1, Append(buf, chQuote))
         ELSE [v |-> TrimRightBlanks(buf), err |-> "nil"]

processString(s) == processStringLoop(s, 1, 0, <<>>)

\* the body of NewHeader's loop over the cards: Keys after card line (80 bytes)
ProcessCard(Keys, line) ==
    LET key == TrimSpace(SubSeq(line, 1, 8))
        s   == TrimSpace(SubSeq(line, 11, CardLen))
    IN  IF SubSeq(line, 9, 10) # <<61, 32>> THEN Put(Keys, key, vNil)
        ELSE IF s = <<>> THEN Put(Keys, key, vNil)
        ELSE
        LET first == s[1]
        IN  IF first = chQuote
            THEN LET r == processString(s)
                 IN  IF r.err = "nil" THEN Put(Keys, key, vStr(r.v)) ELSE Keys
            ELSE
            LET j      == IndexOf(s, chSlash)
                s1     == IF j # -1 THEN SubSeq(s, 1, j) ELSE s
                value  == TrimSpace(s1)
            IN  IF value = <<>> THEN Put(Keys, key, vNil)
                ELSE IF first \in Digits \/ first = 43 \/ first = 45
                THEN IF ContainsAny(value, {46, 68, 69})
                     THEN Put(Keys, key, vFloat(ReplaceFirst(value, 68, 69)))
                     ELSE Put(Keys, key, vInt(ParseInt32(value)))
                ELSE IF first = 84 THEN Put(Keys, key, vBool(TRUE))
                ELSE IF first = 70 THEN Put(Keys, key, vBool(FALSE))
                ELSE IF first = 40 THEN Put(Keys, key, vComplex(value))
                ELSE Keys

\* for i := 0; i < 36; i++ { ... }: st = [Keys, i] before card i of the block buf;
\* the result is Keys after the last card
RECURSIVE ProcessCardsFrom(_, _)
ProcessCardsFrom(st, buf) ==
    IF st.i >= CardsPerBlock THEN st.Keys
    ELSE ProcessCardsFrom(
             [Keys |-> ProcessCard(st.Keys, SubSeq(buf, st.i * CardLen + 1, (st.i + 1) * CardLen)),
              i |-> st.i + 1], buf)

ProcessCards(Keys, buf) == ProcessCardsFrom([Keys |-> Keys, i |-> 0], buf)

\* a Unit as NewHeader makes it
NewUnit(Keys) ==
    [Keys |-> Keys, Naxis |-> <<>>, Data |-> <<>>, dtype |-> "nil", class |-> <<>>,
     blank |-> 0, Blank |-> "nil", list |-> <<>>, fields |-> <<>>]

\* every extent taken from NAXIS1
HeaderNaxisFirstOnly(Keys) ==
    IF ~Has(Keys, kNAXIS) THEN [Naxis |-> <<>>, panic |-> FALSE]
    ELSE IF Keys[kNAXIS].t # "int" \/ Keys[kNAXIS].v < 0
    THEN [Naxis |-> <<>>, panic |-> TRUE]
    ELSE IF \E i \in 1..Keys[kNAXIS].v : ~IsInt(Keys, Nth(kNAXIS, i))
    THEN [Naxis |-> <<>>, panic |-> TRUE]
    ELSE [Naxis |-> [i \in 1..Keys[kNAXIS].v |-> Keys[Nth(kNAXIS, 1)].v], panic |-> FALSE]

\* the Naxis of a header that has reached END: [Naxis, panic]
HeaderNaxis(Keys) ==
    IF ~Has(Keys, kNAXIS) THEN [Naxis |-> <<>>, panic |-> FALSE]
    ELSE IF Keys[kNAXIS].t # "int" \/ Keys[kNAXIS].v < 0
    THEN [Naxis |-> <<>>, panic |-> TRUE]
    ELSE LET n == Keys[kNAXIS].v
         IN  IF \E i \in 1..n : ~IsInt(Keys, Nth(kNAXIS, i))
             THEN [Naxis |-> <<>>, panic |-> TRUE]
             ELSE [Naxis |-> [i \in 1..n |-> Keys[Nth(kNAXIS, i)].v], panic |-> FALSE]

\* Reader.NewHeader: [h, err, b, pos, panic]
RECURSIVE NewHeaderLoop(_, _, _, _, _)

\* after the 36 cards of the page pg gave the keys K1: stop at END, else the next page
HeaderCards(s, pg, K1, io) ==
    IF Has(K1, kEND)
    THEN LET nx == HeaderNaxis(K1)
         IN  [h |-> [NewUnit(K1) EXCEPT !.Naxis = nx.Naxis], err |-> "nil",
              b |-> pg.b, pos |-> pg.pos, panic |-> nx.panic]
    ELSE NewHeaderLoop(s, pg.b, pg.pos, K1, io)

\* after buf, err := b.NextPage() answered pg
HeaderPage(s, pg, Keys, io) ==
    IF pg.err # "nil"
    THEN [h |-> NewUnit(Keys), err |-> pg.err, b |-> pg.b, pos |-> pg.pos, panic |-> FALSE]
    ELSE HeaderCards(s, pg, ProcessCards(Keys, pg.buf), io)

NewHeaderLoop(s, rd, ps, Keys, io) == HeaderPage(s, NextPage(s, rd, ps, io), Keys, io)

NewHeader(s, rd, ps, io) == NewHeaderLoop(s, rd, ps, NoKeys, io)

(***************************************************************************)
(* Floating-point values                                                   *)
(*                                                                         *)
(* A float is [cls, neg, m, e]: cls "nan", "inf", "max" (math.MaxFloat64),  *)
(* "num", the number (-1)^neg * m * 2^e with m odd, or m = 0 and e = 0, or  *)
(* "long", the same with a significand of more than 31 bits kept as bytes.  *)
(***************************************************************************)
fNaN == [cls |-> "nan", neg |-> FALSE, m |-> 0, e |-> 0]
fInf(neg) == [cls |-> "inf", neg |-> neg, m |-> 0, e |-> 0]
fMax(neg) == [cls |-> "max", neg |-> neg, m |-> 0, e |-> 0]
fZero == [cls |-> "num", neg |-> FALSE, m |-> 0, e |-> 0]

\* the float64 strconv.ParseFloat gives for a literal, kept as the literal
fText(literal) == [cls |-> "text", neg |-> FALSE, m |-> literal, e |-> 0]

\* a number whose significand has more than 31 bits: (-1)^neg * sig * 2^e, with the
\* significand kept as its big-endian bytes
fLong(neg, sig, e) == [cls |-> "long", neg |-> neg, m |-> sig, e |-> e]

RECURSIVE Pow2(_)
Pow2(n) == IF n <= 0 THEN 1 ELSE 2 * Pow2(n - 1)

\* the number m * 2^e with m made odd
RECURSIVE Normal(_, _, _)
Normal(neg, m, e) ==
    IF m = 0 THEN [cls |-> "num", neg |-> neg, m |-> 0, e |-> 0]
    ELSE IF m % 2 = 0 THEN Normal(neg, m \div 2, e + 1)
    ELSE [cls |-> "num", neg |-> neg, m |-> m, e |-> e]

\* bytes without their trailing zero bytes, and how many were dropped
RECURSIVE DropZeroBytes(_, _)
DropZeroBytes(bs, k) ==
    IF Len(bs) > 1 /\ bs[Len(bs)] = 0 THEN DropZeroBytes(SubSeq(bs, 1, Len(bs) - 1), k + 1)
    ELSE [bs |-> bs, k |-> k]

\* math.Float32frombits / math.Float64frombits of the big-endian bytes bs:
\* sign, biased exponent E and fraction (IEEE 754 binary32 / binary64)
FloatFromBits(bs) ==
    LET w      == Len(bs)
        neg    == bs[1] >= 128
        E      == IF w = 4 THEN (bs[1] % 128) * 2 + bs[2] \div 128
                  ELSE (bs[1] % 128) * 16 + bs[2] \div 16
        Emax   == IF w = 4 THEN 255 ELSE 2047
        top    == IF w = 4 THEN bs[2] % 128 ELSE bs[2] % 16
        hidden == IF w = 4 THEN 128 ELSE 16
        frac   == <<top>> \o SubSeq(bs, 3, w)
        fbits  == IF w = 4 THEN 23 ELSE 52
        bias   == IF w = 4 THEN 127 ELSE 1023
        zero   == \A i \in 1..Len(frac) : frac[i] = 0
    IN  IF E = Emax THEN (IF zero THEN fInf(neg) ELSE fNaN)
        ELSE LET sig == IF E = 0 THEN frac ELSE <<top + hidden>> \o SubSeq(bs, 3, w)
                 d   == DropZeroBytes(sig, 0)
                 e0  == (IF E = 0 THEN 1 ELSE E) - bias - fbits
             IN  IF FitsInt(d.bs) THEN Normal(neg, BigEndian(d.bs), e0 + 8 * d.k)
                 ELSE IF E = 2046 /\ d.bs = <<31, 255, 255, 255, 255, 255, 255>>
                 THEN fMax(neg)
                 ELSE fLong(neg, d.bs, e0 + 8 * d.k)

\* the float of the magnitude of n
FloatOfMagnitude(n) == IF n < 0 THEN Normal(FALSE, -n, 0) ELSE Normal(FALSE, n, 0)

\* float64(n) for an integer n
FloatOfInt(n) == IF n < 0 THEN Normal(TRUE, -n, 0) ELSE Normal(FALSE, n, 0)

RECURSIVE BitLen(_)
BitLen(m) == IF m = 0 THEN 0 ELSE 1 + BitLen(m \div 2)

\* the bits of n, of a byte and of a byte sequence, the highest first
RECURSIVE NatBits(_)
NatBits(n) == IF n = 0 THEN <<>> ELSE Append(NatBits(n \div 2), n % 2)

ByteBits(c) == [i \in 1..8 |-> (c \div Pow2(8 - i)) % 2]

RECURSIVE BytesBits(_)
BytesBits(bs) == IF bs = <<>> THEN <<>> ELSE ByteBits(bs[1]) \o BytesBits(Tail(bs))

RECURSIVE DropZeroBits(_)
DropZeroBits(bits) == IF bits # <<>> /\ bits[1] = 0 THEN DropZeroBits(Tail(bits)) ELSE bits

RECURSIVE BitsValue(_)
BitsValue(bits) ==
    IF bits = <<>> THEN 0
    ELSE 2 * BitsValue(SubSeq(bits, 1, Len(bits) - 1)) + bits[Len(bits)]

\* the significand of a finite float other than zero, from its leading one on
SigBits(x) ==
    IF x.cls = "num" THEN NatBits(x.m)
    ELSE IF x.cls = "long" THEN DropZeroBits(BytesBits(x.m))
    ELSE [i \in 1..53 |-> 1]

\* the power of two of the leading one of a finite float other than zero
TopBit(x) == IF x.cls = "max" THEN 1023 ELSE x.e + Len(SigBits(x)) - 1

\* u < v for significands read from the leading one on, the shorter one continued
\* with zeros
BitsLess(u, v) ==
    \E i \in 1..Max(Len(u), Len(v)) :
        /\ (IF i <= Len(u) THEN u[i] ELSE 0) < (IF i <= Len(v) THEN v[i] ELSE 0)
        /\ \A j \in 1..(i - 1) :
               (IF j <= Len(u) THEN u[j] ELSE 0) = (IF j <= Len(v) THEN v[j] ELSE 0)

\* |x| < |y| for finite floats: by the leading bit, then by the significand
MagLess(x, y) ==
    IF y.cls = "num" /\ y.m = 0 THEN FALSE
    ELSE IF x.cls = "num" /\ x.m = 0 THEN TRUE
    ELSE IF TopBit(x) # TopBit(y) THEN TopBit(x) < TopBit(y)
    ELSE BitsLess(SigBits(x), SigBits(y))

\* the rank of a class in the order of magnitudes: the finite ones below the infinite
Rank(x) == IF x.cls \in {"num", "long", "max"} THEN 0 ELSE 1

AbsLess(x, y) ==
    IF Rank(x) # Rank(y) THEN Rank(x) < Rank(y)
    ELSE IF Rank(x) = 0 THEN MagLess(x, y) ELSE FALSE

IsZero(x) == x.cls = "num" /\ x.m = 0

\* x < y on float64 (false when either is NaN)
FloatLess(x, y) ==
    IF x.cls = "nan" \/ y.cls = "nan" THEN FALSE
    ELSE IF IsZero(x) /\ IsZero(y) THEN FALSE
    ELSE IF x.neg /\ ~y.neg THEN ~(IsZero(x) /\ IsZero(y))
    ELSE IF ~x.neg /\ y.neg THEN FALSE
    ELSE IF x.neg THEN AbsLess(y, x)
    ELSE AbsLess(x, y)

\* math.IsNaN
IsNaN(x) == x.cls = "nan"

\* an int64: [k, v, e].  k "int" is the value v; k "wide" is v * 2^e, a value of more
\* than 31 bits; k "min" and "max" are math.MinInt64 and math.MaxInt64
I64(n) == [k |-> "int", v |-> n, e |-> 0]
I64Wide(m, e) == [k |-> "wide", v |-> m, e |-> e]
I64Min == [k |-> "min", v |-> 0, e |-> 0]
I64Max == [k |-> "max", v |-> 0, e |-> 0]

\* an int64 of more than 32 bits from its bytes: the signed upper half and the two
\* 16-bit limbs of the lower half
I64Limbs(bs) ==
    [k |-> "limbs", e |-> 0,
     v |-> <<Signed(SubSeq(bs, 1, 4)), BigEndian(SubSeq(bs, 5, 6)), BigEndian(SubSeq(bs, 7, 8))>>]

\* int64(binary.BigEndian.Uint64(b.elem[0:8])) as a value of a table cell
Int64Value(bs) == IF SignExtended(bs) THEN I64(Signed(bs)) ELSE I64Limbs(bs)

\* int64(x) for a float x that int64 cannot represent (NaN, the infinities, values out
\* of range): the conversion succeeds and its result is implementation-dependent (the
\* Go specification); the builds give 0, MinInt64 or MaxInt64
ImplDefinedInts == {I64(0), I64Min, I64Max}

\* the 8 bytes of the two's complement of the magnitude bits (64 of them, not all
\* zero), negated when neg: the bits before the last one are inverted
TwosBytes(neg, bits) ==
    LET last == CHOOSE p \in 1..64 : bits[p] = 1 /\ \A q \in (p + 1)..64 : bits[q] = 0
        out  == [i \in 1..64 |-> IF neg /\ i < last THEN 1 - bits[i] ELSE bits[i]]
    IN  [k \in 1..8 |-> BitsValue(SubSeq(out, 8 * k - 7, 8 * k))]

\* the integer part of a long float whose leading bit is 2^top, 0 <= top < 63, as the
\* n = top + 1 bits of its magnitude
IntegerBits(x, n) == [i \in 1..n |-> IF i <= Len(SigBits(x)) THEN SigBits(x)[i] ELSE 0]

\* int64(x) for a long float x
IntsOfLong(x) ==
    IF TopBit(x) < 0 THEN {I64(0)}
    ELSE IF TopBit(x) >= 63 THEN ImplDefinedInts
    ELSE IF TopBit(x) < 31
    THEN {I64(IF x.neg THEN -BitsValue(IntegerBits(x, TopBit(x) + 1))
              ELSE BitsValue(IntegerBits(x, TopBit(x) + 1)))}
    ELSE {Int64Value(TwosBytes(x.neg, Repeat(0, 63 - TopBit(x))
                                          \o IntegerBits(x, TopBit(x) + 1)))}

\* int64(x) for a float x: the truncation towards zero; the set of possible results
IntsOfFloat(x) ==
    IF x.cls = "long" THEN IntsOfLong(x)
    ELSE IF x.cls # "num" THEN ImplDefinedInts
    ELSE IF x.m = 0 THEN {I64(0)}
    ELSE IF x.e >= 0
    THEN IF BitLen(x.m) + x.e <= 31
         THEN {I64(IF x.neg THEN -(x.m * Pow2(x.e)) ELSE x.m * Pow2(x.e))}
         ELSE IF BitLen(x.m) + x.e <= 63
         THEN {I64Wide(IF x.neg THEN -x.m ELSE x.m, x.e)}
         ELSE IF x.neg /\ x.m = 1 /\ x.e = 63 THEN {I64Min}
         ELSE ImplDefinedInts
    ELSE IF -x.e > 30 THEN {I64(0)}
    ELSE {I64(IF x.neg THEN -(x.m \div Pow2(-x.e)) ELSE x.m \div Pow2(-x.e))}

(***************************************************************************)
(* Images: index, loadData, the pixel accessors, Stats                     *)
(***************************************************************************)
\* prod := 1; for _, x := range h.Naxis { prod *= x }
RECURSIVE Product(_)
Product(nx) == IF nx = <<>> THEN 1 ELSE nx[1] * Product(Tail(nx))

\* Unit.index(a...): the offset of pixel a in the flat Data (0-based)
\* the offset with the first axis varying slowest
RECURSIVE indexFirstSlowestFrom(_, _, _, _)
indexFirstSlowestFrom(Naxis, a, i, idx) ==
    IF i > Len(Naxis) THEN idx
    ELSE indexFirstSlowestFrom(Naxis, a, i + 1, idx * Naxis[i] + a[i])

indexFirstSlowest(h, a) == indexFirstSlowestFrom(h.Naxis, a, 1, 0)

RECURSIVE indexFrom(_, _, _, _)
indexFrom(Naxis, a, i, idx) ==
    IF i < 1 THEN idx ELSE indexFrom(Naxis, a, i - 1, idx * Naxis[i] + a[i])

index(h, a) == indexFrom(h.Naxis, a, Len(h.Naxis), 0)

\* the Data type loadData selects for a BITPIX, and its element size in bytes
DataType(bitpix) ==
    IF bitpix = 8 THEN "[]byte" ELSE IF bitpix = 16 THEN "[]int16"
    ELSE IF bitpix = 32 THEN "[]int32" ELSE IF bitpix = 64 THEN "[]int64"
    ELSE IF bitpix = -32 THEN "[]float32" ELSE IF bitpix = -64 THEN "[]float64"
    ELSE "nil"

ElemWidth(dtype) ==
    IF dtype = "[]byte" THEN 1 ELSE IF dtype = "[]int16" THEN 2
    ELSE IF dtype \in {"[]int32", "[]float32"} THEN 4 ELSE 8

IsFloatType(dtype) == dtype \in {"[]float32", "[]float64"}

\* the value b.ReadByte(), b.ReadInt16(), ..., b.ReadFloat64() decode from b.elem
ElemValue(dtype, bytes) ==
    IF dtype = "[]byte" THEN bytes[1]
    ELSE IF IsFloatType(dtype) THEN FloatFromBits(bytes)
    ELSE Signed(bytes)

\* for i = 0; i < prod; i++ { data[i] = b.ReadXxx() }: st = [data, b, pos, panic]
ElemStored(st, dtype, r) ==
    [data |-> Append(st.data, ElemValue(dtype, r.bytes)), b |-> r.b, pos |-> r.pos,
     panic |-> r.panic]

RECURSIVE ReadElems(_, _, _, _, _)
ReadElems(s, st, prod, dtype, io) ==
    IF Len(st.data) >= prod \/ st.panic THEN st
    ELSE ReadElems(s, ElemStored(st, dtype, ReadElem(s, st.b, st.pos, ElemWidth(dtype), io)),
                   prod, dtype, io)

\* the Blank closure chosen by the BLANK key alone
BlankKindByKey(Keys, bitpix) ==
    IF Has(Keys, kBLANK) THEN "int"
    ELSE IF bitpix < 0 THEN "float"
    ELSE "false"

\* the Blank closure loadData installs, and h.blank
BlankKind(Keys, bitpix) ==
    IF Has(Keys, kBLANK) /\ bitpix > 0 THEN "int"
    ELSE IF bitpix < 0 THEN "float"
    ELSE "false"

\* the end of loadData once the loop over the elements has given st: h.Data, and
\* h.Blank and h.blank from the BLANK key
DataLoaded(h, st, bitpix, dtype) ==
    LET kind == BlankKind(h.Keys, bitpix)
        bad  == kind = "int" /\ h.Keys[kBLANK].t # "int"
    IN  [h |-> [h EXCEPT !.Data = st.data, !.dtype = dtype, !.Blank = kind,
                         !.blank = IF kind = "int" /\ ~bad THEN h.Keys[kBLANK].v
                                   ELSE h.blank],
         b |-> st.b, pos |-> st.pos, err |-> "nil", panic |-> st.panic \/ bad]

\* Unit.loadData(b): [h, b, pos, err, panic]
loadData(s, h, rd, ps, io) ==
    IF Len(h.Naxis) = 0
    THEN [h |-> [h EXCEPT !.dtype = "[]int"], b |-> rd, pos |-> ps, err |-> "nil",
          panic |-> FALSE]
    ELSE
    LET prod   == Product(h.Naxis)
        bitpix == h.Keys[kBITPIX].v
        dtype  == DataType(bitpix)
    IN  IF prod < 0
        THEN [h |-> h, b |-> rd, pos |-> ps, err |-> "nil", panic |-> TRUE]
        ELSE DataLoaded(h,
                 IF dtype = "nil"
                 THEN [data |-> <<>>, b |-> rd, pos |-> ps, panic |-> FALSE]
                 ELSE ReadElems(s, [data |-> <<>>, b |-> rd, pos |-> ps, panic |-> FALSE],
                                prod, dtype, io),
                 bitpix, dtype)

\* h.At(a...): the element of Data at index(a)
At(h, a) == h.Data[index(h, a) + 1]

\* h.IntAt(a...): int64(data[h.index(a...)]); the set of values it may return
IntAt(h, a) ==
    IF IsFloatType(h.dtype) THEN IntsOfFloat(h.Data[index(h, a) + 1])
    ELSE {I64(h.Data[index(h, a) + 1])}

\* h.FloatAt(a...): float64(data[h.index(a...)])
FloatAt(h, a) ==
    IF IsFloatType(h.dtype) THEN h.Data[index(h, a) + 1]
    ELSE FloatOfInt(h.Data[index(h, a) + 1])

\* h.Blank(a...)
Blank(h, a) ==
    IF h.Blank = "int" THEN I64(h.blank) \in IntAt(h, a)
    ELSE IF h.Blank = "float" THEN IsNaN(FloatAt(h, a))
    ELSE FALSE

\* whether the loop of Stats leaves element x of Data out of min and max
StatsSkips(h, x) ==
    IF IsFloatType(h.dtype) THEN IsNaN(x) ELSE x = h.blank

\* the loop of Stats: st = [i, min, max]
RECURSIVE StatsLoop(_, _, _)
StatsLoop(h, st, prod) ==
    IF st.i >= prod THEN st
    ELSE LET x  == h.Data[st.i + 1]
             fx == IF IsFloatType(h.dtype) THEN x ELSE FloatOfInt(x)
             mn == IF ~StatsSkips(h, x) /\ FloatLess(fx, st.min) THEN fx ELSE st.min
             mx == IF ~StatsSkips(h, x) /\ FloatLess(st.max, fx) THEN fx ELSE st.max
         IN  StatsLoop(h, [i |-> st.i + 1, min |-> mn, max |-> mx], prod)

\* Unit.Stats(): [min, max]
Stats(h) ==
    LET prod == Product(h.Naxis)
    IN  IF prod = 1 THEN [min |-> fZero, max |-> fZero]
        ELSE IF DataType(h.Keys[kBITPIX].v) = "nil"
        THEN [min |-> fMax(FALSE), max |-> fMax(TRUE)]
        ELSE LET st == StatsLoop(h, [i |-> 0, min |-> fMax(FALSE), max |-> fMax(TRUE)], prod)
             IN  [min |-> st.min, max |-> st.max]

(***************************************************************************)
(* verifyPrimary and verifyExtension                                       *)
(***************************************************************************)
ValidBitpix == {8, 16, 32, 64, -32, -64}

\* the first i in 1..n with no integer NAXISi, or 0
MissingNaxis(Keys, n) ==
    IF \E i \in 1..n : ~IsInt(Keys, Nth(kNAXIS, i))
    THEN CHOOSE i \in 1..n : ~IsInt(Keys, Nth(kNAXIS, i))
                             /\ \A j \in 1..(i - 1) : IsInt(Keys, Nth(kNAXIS, j))
    ELSE 0

\* Unit.verifyPrimary(): the error, "nil" when the header passes
verifyPrimary(h) ==
    IF ~Has(h.Keys, kSIMPLE) THEN "No SIMPLE in the primary header"
    ELSE IF ~IsInt(h.Keys, kBITPIX) THEN "No BITPIX in the primary header"
    ELSE IF h.Keys[kBITPIX].v \notin ValidBitpix THEN "Invalid BITPIX value"
    ELSE IF ~IsInt(h.Keys, kNAXIS) THEN "No NAXIS in the primary header"
    ELSE IF MissingNaxis(h.Keys, h.Keys[kNAXIS].v) # 0 THEN "No NAXISn in the primary header"
    ELSE "nil"

\* Unit.verifyExtension(): the error, "nil" when the header passes
verifyExtension(h) ==
    IF ~IsString(h.Keys, kXTENSION) THEN "No XTENSION in the extended header"
    ELSE IF ~IsInt(h.Keys, kBITPIX) THEN "No BITPIX in the extended header"
    ELSE IF h.Keys[kBITPIX].v \notin ValidBitpix THEN "Invalid BITPIX value"
    ELSE IF ~IsInt(h.Keys, kNAXIS) THEN "No NAXIS in the extended header"
    ELSE IF MissingNaxis(h.Keys, h.Keys[kNAXIS].v) # 0 THEN "No NAXISn in the extended header"
    ELSE IF ~IsInt(h.Keys, kPCOUNT) THEN "No PCOUNT in the extended header"
    ELSE IF ~IsInt(h.Keys, kGCOUNT) THEN "No GCOUNT in the extended header"
    ELSE LET xten == h.Keys[kXTENSION].v
         IN  IF xten = sIMAGE
             THEN IF h.Keys[kPCOUNT].v # 0 THEN "PCOUNT should be 0 in IMAGE header"
                  ELSE "nil"
             ELSE IF xten \in {sTABLE, sBINTABLE}
             THEN IF h.Keys[kBITPIX].v # 8
                  THEN "BITPIX should be 8 in TABLE/BINTABLE headers"
                  ELSE IF h.Keys[kNAXIS].v # 2
                  THEN "NAXIS should be 2 in TABLE/BINTABLE headers"
                  ELSE "nil"
             ELSE "nil"

(***************************************************************************)
(* Tables: accessorBin, accessorText, loadTable, the FieldFuncs            *)
(***************************************************************************)
\* a FieldFunc that was never set (the zero value of h.list[i])
NilField == [set |-> FALSE, binary |-> FALSE, code |-> 0, repeat |-> 0, c |-> 0, left |-> 0,
             elem |-> <<>>]

\* the codes of accessorBin's switch, as bytes
BinCodes == {65, 66, 67, 68, 69, 73, 74, 75, 76, 77, 80, 81, 88}
BinPanicCodes == {88, 80, 81}
TextCodes == {65, 73, 68, 69, 70}

\* l of accessorBin: the bytes one element of the code takes in a row
BinElemLen(code) ==
    IF code \in {65, 66, 76} THEN 1        \* A, B, L
    ELSE IF code = 73 THEN 2                \* I
    ELSE IF code \in {74, 69} THEN 4        \* J, E
    ELSE IF code \in {75, 68, 67} THEN 8    \* K, D, C
    ELSE IF code = 77 THEN 16               \* M
    ELSE 0

\* disp of accessorBin: the default TDISP of a code
BinDisp(code, repeat) ==
    IF code = 65 THEN <<65>> \o IntToStr(repeat)
    ELSE IF code = 66 THEN Str(<<"I", "3">>)
    ELSE IF code = 76 THEN Str(<<"B", "1">>)
    ELSE IF code = 73 THEN Str(<<"I", "6">>)
    ELSE IF code = 74 THEN Str(<<"I", "1", "1">>)
    ELSE IF code = 75 THEN Str(<<"I", "2", "0">>)
    ELSE Str(<<"F", "1", "4", ".", "7">>)

\* disp of accessorText
TextDisp(code, repeat) ==
    IF code = 65 THEN <<65>> \o IntToStr(repeat)
    ELSE IF code = 73 THEN <<73>> \o IntToStr(repeat)
    ELSE Str(<<"F", "1", "4", ".", "7">>)

\* the column advanced by one element whatever the repeat count
accessorBinOneElement(code, repeat, col) ==
    [fn |-> [set |-> TRUE, binary |-> TRUE, code |-> code, repeat |-> repeat, c |-> col,
             left |-> 0, elem |-> Repeat(0, ElemSize)],
     disp |-> BinDisp(code, repeat),
     col |-> col + BinElemLen(code),
     panic |-> code \in BinPanicCodes]

\* accessorBin(code, repeat, &col): the FieldFunc (c := *col, its Reader's left 0 and
\* b.elem = make([]byte, 8), shared by all its calls), disp, and *col after
\* *col += l * repeat
accessorBin(code, repeat, col) ==
    [fn |-> [set |-> TRUE, binary |-> TRUE, code |-> code, repeat |-> repeat, c |-> col,
             left |-> 0, elem |-> Repeat(0, ElemSize)],
     disp |-> BinDisp(code, repeat),
     col |-> col + BinElemLen(code) * repeat,
     panic |-> code \in BinPanicCodes]

\* accessorText(code, repeat, &col): c := *col - 1; its Reader is built without elem
accessorText(code, repeat, col) ==
    [fn |-> [set |-> TRUE, binary |-> FALSE, code |-> code, repeat |-> repeat,
             c |-> col - 1, left |-> 0, elem |-> <<>>],
     disp |-> TextDisp(code, repeat),
     col |-> col,
     panic |-> code \notin TextCodes]

\* the sizes of the b.Read calls f makes, in order
ReadWidths(fn) ==
    IF ~fn.binary \/ fn.code = 65 THEN <<fn.repeat>>
    ELSE IF fn.code \in {67, 77}
    THEN Repeat(BinElemLen(fn.code) \div 2, 2 * fn.repeat)
    ELSE Repeat(BinElemLen(fn.code), fn.repeat)

\* whether f reads through b.elem (ReadByte, ..., ReadFloat64) and not through a
\* slice of its own (ReadString)
TypedRead(fn) == fn.binary /\ fn.code # 65

\* one read of w bytes of f on the FieldFunc's Reader over the blob data (b.buf = data,
\* b.right = len(data), no underlying reader): b.Read(b.elem[0:w]) of a typed read,
\* b.Read(p) with p := make([]byte, w) of ReadString
FieldRead(data, left, elem, w, typed) ==
    IF w < 0 THEN [bytes |-> <<>>, left |-> left, elem |-> elem, panic |-> TRUE]
    ELSE
    LET rd == [buf |-> data, elem |-> elem, left |-> left, right |-> Len(data),
               eof |-> FALSE]
        r  == Read(<<>>, rd, 0, IF typed THEN SubSeq(elem, 1, w) ELSE Repeat(0, w),
                   [chunk |-> 0, dataEOF |-> FALSE, kind |-> "nil"])
    IN  [bytes |-> r.p, left |-> r.b.left,
         elem |-> IF typed THEN r.p \o SubSeq(elem, w + 1, Len(elem)) ELSE elem,
         panic |-> r.panic]

\* the value of one element of a binary code from the bytes read for it
BinElemValue(code, bytes) ==
    IF code = 66 THEN bytes[1]
    ELSE IF code = 76 THEN bytes[1] # 0
    ELSE IF code \in {73, 74} THEN Signed(bytes)
    ELSE IF code = 75 THEN Int64Value(bytes)
    ELSE FloatFromBits(bytes)

BinTypeName(code) ==
    IF code = 66 THEN "uint8" ELSE IF code = 76 THEN "bool"
    ELSE IF code = 73 THEN "int16" ELSE IF code = 74 THEN "int32"
    ELSE IF code = 75 THEN "int64" ELSE IF code = 69 THEN "float32"
    ELSE IF code = 68 THEN "float64" ELSE IF code = 67 THEN "complex64"
    ELSE "complex128"

\* the value f returns from the bytes of its Read calls (chunks, in order)
CellValue(fn, chunks) ==
    IF ~fn.binary
    THEN IF fn.code = 65 THEN [t |-> "string", v |-> chunks[1]]
         ELSE IF fn.code = 73
         THEN [t |-> "int", v |-> ParseInt32(TrimSpace(chunks[1]))]
         ELSE [t |-> "float64", v |-> fText(ReplaceFirst(TrimSpace(chunks[1]), 68, 69))]
    ELSE IF fn.code = 65 THEN [t |-> "string", v |-> chunks[1]]
    ELSE
    LET elems == IF fn.code \in {67, 77}
                 THEN [k \in 1..fn.repeat |->
                          <<FloatFromBits(chunks[2 * k - 1]), FloatFromBits(chunks[2 * k])>>]
                 ELSE [k \in 1..fn.repeat |-> BinElemValue(fn.code, chunks[k])]
    IN  IF fn.repeat = 1 THEN [t |-> BinTypeName(fn.code), v |-> elems[1]]
        ELSE [t |-> "[]", elem |-> BinTypeName(fn.code), v |-> elems]

\* x := f(): the Read calls of f from cursor left: st = [chunks, left, elem, panic]
RECURSIVE FieldReads(_, _, _, _)
FieldReads(data, ws, typed, st) ==
    IF Len(st.chunks) >= Len(ws) \/ st.panic THEN st
    ELSE LET r == FieldRead(data, st.left, st.elem, ws[Len(st.chunks) + 1], typed)
         IN  FieldReads(data, ws, typed,
                        [chunks |-> Append(st.chunks, r.bytes), left |-> r.left,
                         elem |-> r.elem, panic |-> r.panic])

\* the cursor as the call before left it
CursorKept(h, fn, row) == fn.left

\* b.left = row*h.Naxis[0] + c   (the FieldFunc fn)
CursorFor(h, fn, row) == row * h.Naxis[1] + fn.c

\* row < 0 || row >= h.Naxis[1]
BadRow(h, row) == row < 0 \/ row >= h.Naxis[2]

vNilCell == [t |-> "nil", v |-> <<>>]

\* the FieldFunc fn of accessorBin / accessorText called with row, run alone:
\* [x, left, elem, panic], left and elem the cursor and the b.elem of its Reader
\* afterwards
FieldFunc(h, fn, row) ==
    IF BadRow(h, row)
    THEN [x |-> vNilCell, left |-> fn.left, elem |-> fn.elem, panic |-> FALSE]
    ELSE LET st == FieldReads(h.Data, ReadWidths(fn), TypedRead(fn),
                              [chunks |-> <<>>, left |-> CursorFor(h, fn, row),
                               elem |-> fn.elem, panic |-> FALSE])
         IN  [x |-> IF st.panic THEN vNilCell ELSE CellValue(fn, st.chunks),
              left |-> st.left, elem |-> st.elem, panic |-> st.panic]

\* the body of loadTable's loop for field i (0-based):
\* st = [Keys, list, fields, col, i, err, panic]
LoadField(st, binary) ==
    LET i    == st.i
        next == [st EXCEPT !.i = i + 1]
        stop == [st EXCEPT !.panic = TRUE]
    IN  IF ~IsString(st.Keys, Nth(kTFORM, i + 1)) THEN stop
        ELSE
        LET form == st.Keys[Nth(kTFORM, i + 1)].v
            jb   == IndexAny(form, BinCodes)
            jt   == IF IndexOf(form, 46) = -1 THEN Len(form) ELSE IndexOf(form, 46)
        IN  IF binary /\ jb = -1
            THEN [st EXCEPT !.err = "TFROM has invalid format (binary)"]
            ELSE IF binary /\ (IF jb > 0 THEN ParseInt32(SubSeq(form, 1, jb)) ELSE 1) <= 0
            THEN next
            ELSE IF ~binary /\ (jt < 1 \/ ~IsInt(st.Keys, Nth(kTBCOL, i + 1)))
            THEN stop
            ELSE
            LET acc == IF binary
                       THEN accessorBin(form[jb + 1],
                                IF jb > 0 THEN ParseInt32(SubSeq(form, 1, jb)) ELSE 1,
                                st.col)
                       ELSE accessorText(form[1], ParseInt32(SubSeq(form, 2, jt)),
                                st.Keys[Nth(kTBCOL, i + 1)].v)
                hasName == Has(st.Keys, Nth(kTTYPE, i + 1))
                name    == st.Keys[Nth(kTTYPE, i + 1)]
                K1 == IF hasName THEN Put(st.Keys, <<35>> \o name.v, vInt(i + 1))
                      ELSE Put(st.Keys, Nth(kTTYPE, i + 1), vStr(Nth(kCOL, i + 1)))
                K2 == IF Has(K1, Nth(kTDISP, i + 1)) THEN K1
                      ELSE Put(K1, Nth(kTDISP, i + 1), vStr(acc.disp))
            IN  IF acc.panic \/ (hasName /\ name.t # "string") THEN stop
                ELSE [Keys |-> K2,
                      list |-> [st.list EXCEPT ![i + 1] = acc.fn],
                      fields |-> IF hasName THEN Put(st.fields, name.v, i) ELSE st.fields,
                      col |-> acc.col, i |-> i + 1, err |-> "nil", panic |-> FALSE]

RECURSIVE LoadFields(_, _, _)
LoadFields(st, tfields, binary) ==
    IF st.i >= tfields \/ st.panic \/ st.err # "nil" THEN st
    ELSE LoadFields(LoadField(st, binary), tfields, binary)

\* the end of loadTable: r the answer of b.Read(data), st the state after the fields
TableLoaded(h, r, st) ==
    [h |-> [h EXCEPT !.Keys = st.Keys, !.list = st.list, !.fields = st.fields,
                     !.Data = r.p, !.dtype = "[]byte"],
     b |-> r.b, pos |-> r.pos, err |-> st.err, panic |-> st.panic]

\* loadTable after b.Read(data) answered r: the loop over the fields
TableRead(h, r, tfields, binary) ==
    TableLoaded(h, r,
        LoadFields([Keys |-> h.Keys, list |-> Repeat(NilField, tfields), fields |-> NoKeys,
                    col |-> 0, i |-> 0, err |-> "nil", panic |-> r.panic],
                   tfields, binary))

\* Unit.loadTable(b, binary): [h, b, pos, err, panic]
loadTable(s, h, rd, ps, binary, io) ==
    IF ~IsInt(h.Keys, kTFIELDS) \/ Len(h.Naxis) < 2
    THEN [h |-> h, b |-> rd, pos |-> ps, err |-> "nil", panic |-> TRUE]
    ELSE
    LET tfields == h.Keys[kTFIELDS].v
        size    == h.Naxis[1] * h.Naxis[2]
    IN  IF tfields < 0 \/ size < 0
        THEN [h |-> h, b |-> rd, pos |-> ps, err |-> "nil", panic |-> TRUE]
        ELSE TableRead(h, Read(s, rd, ps, Repeat(0, size), io), tfields, binary)

(***************************************************************************)
(* Field and Format                                                        *)
(***************************************************************************)
\* a column given by index, and a column given by name
ColInt(n) == [t |-> "int", v |-> n]
ColStr(name) == [t |-> "string", v |-> name]

\* Unit.Field(col): the FieldFunc h.list[i] (0-based i), the one h.fields holds for the
\* name, or the func that returns nil
Field(h, col) ==
    IF col.t = "int" /\ col.v >= 0 /\ col.v < Len(h.list)
    THEN [kind |-> "list", i |-> col.v]
    ELSE IF col.t = "string" /\ Has(h.fields, col.v)
    THEN [kind |-> "list", i |-> h.fields[col.v]]
    ELSE [kind |-> "returns nil", i |-> -1]

\* f(row) for the FieldFunc f that Field or Format picked: [x, left, elem, panic]; calling
\* an element of h.list that loadTable never set is a call of a nil func
CallField(h, f, row) ==
    IF f.kind # "list" THEN [x |-> vNilCell, left |-> 0, elem |-> <<>>, panic |-> FALSE]
    ELSE IF ~h.list[f.i + 1].set
    THEN [x |-> vNilCell, left |-> 0, elem |-> <<>>, panic |-> TRUE]
    ELSE FieldFunc(h, h.list[f.i + 1], row)

\* the length of the run of digits s starts with
RECURSIVE DigitRun(_, _)
DigitRun(s, n) == IF n < Len(s) /\ s[n + 1] \in Digits THEN DigitRun(s, n + 1) ELSE n

sMaxInt64 == <<57, 50, 50, 51, 51, 55, 50, 48, 51, 54, 56, 53, 52, 55, 55, 53, 56, 48, 55>>

\* the digit string ds is beyond the 64 bits of strconv.ParseInt(tok, 10, 64): above
\* 2^63 - 1, or above 2^63 after a minus sign
ExceedsInt64(ds, neg) ==
    LET t   == DropZeros(ds)
        top == IF neg THEN [sMaxInt64 EXCEPT ![19] = 56] ELSE sMaxInt64
    IN  \/ Len(t) > 19
        \/ /\ Len(t) = 19
           /\ \E i \in 1..19 : t[i] > top[i] /\ \A j \in 1..(i - 1) : t[j] = top[j]

\* the sign and the digits of ScanInt: t is the text after the sign, n its digit run.
\* No digit, or a number beyond 64 bits, is an error of the scan.  The value is an
\* int of 64 bits: one beyond 32 bits is held as the nearest bound of 32 bits.
ScanDigits(s, neg, t, n) ==
    IF n = 0 \/ ExceedsInt64(SubSeq(t, 1, n), neg) THEN [ok |-> FALSE, v |-> 0, rest |-> s]
    ELSE [ok |-> TRUE,
          v |-> IF neg THEN -DigitsValue(SubSeq(t, 1, n), 1, 0)
                ELSE DigitsValue(SubSeq(t, 1, n), 1, 0),
          rest |-> SubSeq(t, n + 1, Len(t))]

ScanSigned(s, t) ==
    IF t # <<>> /\ t[1] \in {43, 45}
    THEN ScanDigits(s, t[1] = 45, Tail(t), DigitRun(Tail(t), 0))
    ELSE ScanDigits(s, FALSE, t, DigitRun(t, 0))

\* ss.SkipSpace of fmt.Sscanf: the runes of white space are passed over, but a
\* newline among them ends the scan with the error "unexpected newline"
RECURSIVE SkipSpace(_)
SkipSpace(s) ==
    IF s = <<>> THEN [ok |-> TRUE, rest |-> s]
    ELSE IF s[1] = 10 THEN [ok |-> FALSE, rest |-> Tail(s)]
    ELSE IF IsSpace(DecodeRune(s, 1).r)
    THEN SkipSpace(SubSeq(s, 1 + DecodeRune(s, 1).w, Len(s)))
    ELSE [ok |-> TRUE, rest |-> s]

\* the %d of fmt.Sscanf on s: white space skipped, a sign, digits: [ok, v, rest]; on
\* an error the operand keeps its value and the scan goes no further
ScanInt(s) ==
    IF SkipSpace(s).ok THEN ScanSigned(s, SkipSpace(s).rest)
    ELSE [ok |-> FALSE, v |-> 0, rest |-> s]

\* ".%d" of the format once %d gave a
ScanDecimals(code, a) ==
    IF ~a.ok THEN [code |-> code, w |-> 14, m |-> -1]
    ELSE IF a.rest = <<>> \/ a.rest[1] # 46 THEN [code |-> code, w |-> a.v, m |-> -1]
    ELSE [code |-> code, w |-> a.v,
          m |-> IF ScanInt(Tail(a.rest)).ok THEN ScanInt(Tail(a.rest)).v ELSE -1]

\* fmt.Sscanf(d, "%c%d.%d", &code, &w, &m) with w = 14 and m = -1 beforehand; %c
\* reads one rune of d
ScanDisp(d) ==
    IF d = <<>> THEN [code |-> 0, w |-> 14, m |-> -1]
    ELSE ScanDecimals(DecodeRune(d, 1).r, ScanInt(SubSeq(d, 1 + DecodeRune(d, 1).w, Len(d))))

\* the verb Format picks for a TDISP code (0: the default format "%v")
VerbOf(code) ==
    IF code = 65 THEN 115                  \* A: s
    ELSE IF code = 73 THEN 100             \* I: d
    ELSE IF code = 66 THEN 98              \* B: b
    ELSE IF code = 79 THEN 111             \* O: o
    ELSE IF code = 90 THEN 88              \* Z: X
    ELSE IF code \in {70, 68} THEN 102     \* F, D: f
    ELSE IF code = 69 THEN 101             \* E: e
    ELSE IF code = 71 THEN 103             \* G: g
    ELSE 0

\* a number of a format that fmt's parsenum accepts: none of its proper prefixes is
\* above 10^6 (beyond that the directive is no verb at all)
NumOK(n) == n \div 10 <= 1000000

\* the format Format builds with fmt.Sprintf("%%%d.%df", w, m) and the like, as fmt
\* reads it: the verb, the width and the precision.  A negative w is the flag - and a
\* width, w = 0 the flag 0 without a width, a negative m no number after the point.
FormatOf(code, w, m) ==
    IF VerbOf(code) = 0
    THEN [verb |-> 118, minus |-> FALSE, w |-> 0, hasPrec |-> FALSE, prec |-> 0, ok |-> TRUE]
    ELSE IF code = 65
    THEN [verb |-> 115, minus |-> w < 0, w |-> IF w < 0 THEN -w ELSE w,
          hasPrec |-> TRUE, prec |-> w, ok |-> w >= 0 /\ NumOK(w)]
    ELSE IF VerbOf(code) \in {102, 101, 103} /\ m # -1
    THEN [verb |-> VerbOf(code), minus |-> w < 0, w |-> IF w < 0 THEN -w ELSE w,
          hasPrec |-> TRUE, prec |-> m, ok |-> m >= 0 /\ NumOK(m) /\ NumOK(IF w < 0 THEN -w ELSE w)]
    ELSE [verb |-> VerbOf(code), minus |-> w < 0, w |-> IF w < 0 THEN -w ELSE w,
          hasPrec |-> FALSE, prec |-> 0, ok |-> NumOK(IF w < 0 THEN -w ELSE w)]

\* string(d[0]): the UTF-8 encoding of the rune whose value is the byte c
ByteAsRune(c) == IF c < 128 THEN <<c>> ELSE <<192 + (c \div 64), 128 + (c % 64)>>

\* d without its second character when that is N or S (ENw.d, ESw.d)
DispCode(d) ==
    IF Len(d) > 1 /\ d[2] \in {78, 83} THEN ByteAsRune(d[1]) \o SubSeq(d, 3, Len(d)) ELSE d

\* a text padded with spaces on the left to width w, the width counted in runes
\* (fmt's padding without the - flag: f.wid - utf8.RuneCountInString(s) spaces)
PadLeft(s, w) == Repeat(chSpace, w - RuneCount(s)) \o s

\* the decimals of fp / 2^k, one digit at a step: st = [ds, fp]
RECURSIVE FractionDigits(_, _, _)
FractionDigits(st, k, n) ==
    IF n = 0 THEN st
    ELSE FractionDigits([ds |-> Append(st.ds, 48 + (st.fp * 10) \div Pow2(k)),
                         fp |-> (st.fp * 10) % Pow2(k)], k, n - 1)

\* a string of decimal digits plus one in its last place: [ds, carry]
RECURSIVE DigitsPlusOne(_)
DigitsPlusOne(ds) ==
    IF ds = <<>> THEN [ds |-> <<>>, carry |-> TRUE]
    ELSE IF ds[Len(ds)] < 57
    THEN [ds |-> [ds EXCEPT ![Len(ds)] = @ + 1], carry |-> FALSE]
    ELSE [ds |-> Append(DigitsPlusOne(SubSeq(ds, 1, Len(ds) - 1)).ds, 48),
          carry |-> DigitsPlusOne(SubSeq(ds, 1, Len(ds) - 1)).carry]

\* whether FixedPoint can be computed within the integers of the model
FixedPointFits(x) ==
    x.cls = "num" /\ (IF x.e >= 0 THEN BitLen(x.m) + x.e <= 30 ELSE -x.e <= 27)

\* the text of the sign, the integer part ip and the decimals r = [ds, carry]
FixedText(neg, ip, prec, r) ==
    (IF neg THEN <<45>> ELSE <<>>) \o NatToStr(IF r.carry THEN ip + 1 ELSE ip)
        \o (IF prec > 0 THEN <<46>> \o r.ds ELSE <<>>)

\* the decimals st = [ds, fp] rounded on the remainder fp / 2^k, ties to even
FixedRounded(neg, ip, k, prec, st) ==
    IF 2 * st.fp > Pow2(k)
           \/ (2 * st.fp = Pow2(k)
                 /\ (IF prec = 0 THEN ip % 2 ELSE (st.ds[prec] - 48) % 2) = 1)
    THEN FixedText(neg, ip, prec, DigitsPlusOne(st.ds))
    ELSE FixedText(neg, ip, prec, [ds |-> st.ds, carry |-> FALSE])

\* strconv.FormatFloat(x, 'f', prec, bits) for the number x = m * 2^e: the decimal
\* expansion of the exact value, rounded to prec decimals
FixedPoint(x, prec) ==
    IF x.e < 0
    THEN FixedRounded(x.neg, x.m \div Pow2(-x.e), -x.e, prec,
                      FractionDigits([ds |-> <<>>, fp |-> x.m % Pow2(-x.e)], -x.e, prec))
    ELSE FixedRounded(x.neg, x.m * Pow2(x.e), 0, prec,
                      FractionDigits([ds |-> <<>>, fp |-> 0], 0, prec))

\* the types whose values the model holds as integers
IntTypes == {"int", "int16", "int32", "uint8"}

\* the text fmt gives x under the directive f, before padding: [s, exact].  exact is
\* FALSE where the model does not compute the text (verbs e, g, b, o, X, a verb that
\* does not fit the type of x, floats as their shortest decimal, slices)
Verbed(f, x) ==
    IF f.verb = 118                                                    \* %v
    THEN IF x.t = "nil" THEN [s |-> Str(<<"<", "n", "i", "l", ">">>), exact |-> TRUE]
         ELSE IF x.t \in IntTypes THEN [s |-> IntToStr(x.v), exact |-> TRUE]
         ELSE IF x.t = "int64" /\ x.v.k = "int" THEN [s |-> IntToStr(x.v.v), exact |-> TRUE]
         ELSE IF x.t = "string" THEN [s |-> x.v, exact |-> TRUE]
         ELSE IF x.t = "bool"
         THEN [s |-> IF x.v THEN Str(<<"t", "r", "u", "e">>) ELSE Str(<<"f", "a", "l", "s", "e">>),
               exact |-> TRUE]
         ELSE [s |-> <<>>, exact |-> FALSE]
    ELSE IF f.verb = 100                                               \* %wd
    THEN IF x.t \in IntTypes THEN [s |-> IntToStr(x.v), exact |-> TRUE]
         ELSE IF x.t = "int64" /\ x.v.k = "int" THEN [s |-> IntToStr(x.v.v), exact |-> TRUE]
         ELSE [s |-> <<>>, exact |-> FALSE]
    ELSE IF f.verb = 115                                  \* %w.ws: the first w runes
    THEN IF x.t = "string"
         THEN [s |-> SubSeq(x.v, 1, RunesEnd(x.v, 1, f.prec)), exact |-> TRUE]
         ELSE [s |-> <<>>, exact |-> FALSE]
    ELSE IF f.verb = 102                                               \* %w.df, %wf
    THEN IF x.t \in {"float32", "float64"} /\ FixedPointFits(x.v)
         THEN [s |-> FixedPoint(x.v, IF f.hasPrec THEN f.prec ELSE 6), exact |-> TRUE]
         ELSE [s |-> <<>>, exact |-> FALSE]
    ELSE [s |-> <<>>, exact |-> FALSE]

\* the text t of Verbed padded to the width of the directive
Padded(f, t) ==
    IF t.exact THEN [s |-> PadLeft(t.s, f.w), exact |-> TRUE] ELSE t

\* fmt.Sprintf(format, x) for the directive f and one argument x: [s, exact]
Sprintf(f, x) ==
    IF ~f.ok \/ f.minus THEN [s |-> <<>>, exact |-> FALSE] ELSE Padded(f, Verbed(f, x))

\* the first switch of Format for a name whose n.(int) is an int: fn and disp
NamedColumn(h, name, n) ==
    [fn |-> IF Has(h.fields, name) /\ h.list[h.fields[name] + 1].set
            THEN [kind |-> "list", i |-> h.fields[name]]
            ELSE [kind |-> "nil", i |-> -1],
     disp |-> IF Has(h.Keys, Nth(kTDISP, n)) THEN h.Keys[Nth(kTDISP, n)] ELSE vNil,
     panic |-> FALSE]

\* the first switch of Format: fn (as Field gives it, or "nil"), disp, and whether
\* n.(int) panicked.  For a name, n is h.Keys["#"+name].
FormatColumn(h, col) ==
    IF col.t = "int"
    THEN IF col.v >= 0 /\ col.v < Len(h.list)
         THEN [fn |-> IF h.list[col.v + 1].set THEN [kind |-> "list", i |-> col.v]
                      ELSE [kind |-> "nil", i |-> -1],
               disp |-> IF Has(h.Keys, Nth(kTDISP, col.v + 1))
                        THEN h.Keys[Nth(kTDISP, col.v + 1)] ELSE vNil,
               panic |-> FALSE]
         ELSE [fn |-> [kind |-> "nil", i |-> -1], disp |-> vNil, panic |-> FALSE]
    ELSE IF col.t = "string"
    THEN IF ~IsInt(h.Keys, <<35>> \o col.v)
         THEN [fn |-> [kind |-> "nil", i |-> -1], disp |-> vNil, panic |-> TRUE]
         ELSE NamedColumn(h, col.v, h.Keys[<<35>> \o col.v].v)
    ELSE [fn |-> [kind |-> "nil", i |-> -1], disp |-> vNil, panic |-> FALSE]

\* the directive of the format Format applies: "%v" without a TDISP, else the one of
\* the code, the width and the decimals of the TDISP
Directive(sc) == FormatOf(sc.code, sc.w, sc.m)

FormatString(disp) ==
    IF disp.t = "nil" THEN FormatOf(0, 14, -1) ELSE Directive(ScanDisp(DispCode(disp.v)))

\* fmt.Sprintf(format, fn(row)) once fn(row) answered r
Sprinted(c, r, out) ==
    [s |-> out.s, exact |-> out.exact, panic |-> FALSE, i |-> c.fn.i, left |-> r.left,
     elem |-> r.elem]

\* the end of Format once the column c is resolved to a FieldFunc: r is fn(row)
Formatted(c, r) ==
    IF r.panic
    THEN [s |-> <<>>, exact |-> TRUE, panic |-> TRUE, i |-> c.fn.i, left |-> r.left,
          elem |-> r.elem]
    ELSE Sprinted(c, r, Sprintf(FormatString(c.disp), r.x))

\* Format after its first switch gave c
FormatColumnRow(h, c, row) ==
    IF c.panic
    THEN [s |-> <<>>, exact |-> TRUE, panic |-> TRUE, i |-> -1, left |-> 0, elem |-> <<>>]
    ELSE IF c.fn.kind = "nil"
    THEN [s |-> <<>>, exact |-> TRUE, panic |-> FALSE, i |-> -1, left |-> 0, elem |-> <<>>]
    ELSE IF c.disp.t \notin {"nil", "string"}
    THEN [s |-> <<>>, exact |-> TRUE, panic |-> TRUE, i |-> -1, left |-> 0, elem |-> <<>>]
    ELSE Formatted(c, CallField(h, c.fn, row))

\* Unit.Format(col, row): [s, exact, panic, i, left, elem]; i, left and elem tell
\* which FieldFunc ran (-1: none) and how it left the cursor and b.elem of its Reader
Format(h, col, row) == FormatColumnRow(h, FormatColumn(h, col), row)

(***************************************************************************)
(* Open                                                                    *)
(***************************************************************************)
\* the Unit appended last: h of the running iteration
CurUnit == fits[Len(fits)]

\* ret once Open has returned: why the loop ended (fits and err are the results)
Returned(why) == [op |-> "Open", exit |-> why]

\* the else branch of the classification ("unknown header"): break, fits as it is
UnknownHeaderDropped(fs) == SubSeq(fs, 1, Len(fs) - 1)

UnknownHeaderExit(fs) == fs

\* the io.Reader handed to Open: bytes.Reader or os.File, the source that breaks, or
\* a reader with the delivery policy of the input
OpenIO ==
    IF inp.kind = "broken"
    THEN [chunk |-> BlockSize, dataEOF |-> FALSE, kind |-> "broken", failAt |-> inp.failAt]
    ELSE IF inp.kind = "finite" THEN inp.io
    ELSE FullIO

\* for !b.IsEOF() { h, err := b.NewHeader(); if err != nil { err = nil; break }
\*                  fits = append(fits, h) ...
\* The err assigned here and below is the one this statement declares inside the
\* loop (lerr), not the named result err.
OpenHeader ==
    /\ pc = "loop"
    /\ ~IsEOF(b)
    /\ \E r \in {NewHeader(src, b, pos, OpenIO)} :
           /\ b' = r.b
           /\ pos' = r.pos
           /\ IF r.panic
              THEN pc' = "panic" /\ UNCHANGED <<fits, lerr>>
              ELSE IF r.err # "nil"
              THEN pc' = "done" /\ lerr' = "nil" /\ UNCHANGED fits
              ELSE pc' = "body" /\ lerr' = "nil" /\ fits' = Append(fits, r.h)
           /\ ret' = IF ~r.panic /\ r.err # "nil" THEN Returned("header error") ELSE ret
           /\ calls' = IF ~r.panic /\ r.err = "nil" THEN calls + 1 ELSE calls
    /\ UNCHANGED <<src, err, inp, threads>>

\* the loop condition fails: return fits, err
OpenLoopEnd ==
    /\ pc = "loop"
    /\ IsEOF(b)
    /\ pc' = "done"
    /\ ret' = Returned("EOF")
    /\ UNCHANGED <<src, pos, b, fits, err, calls, inp, lerr, threads>>

\* why Open returns after the class of the header is decided; primary tells the
\* branch taken: the one of the SIMPLE key, or the one of the XTENSION string
VerifyExit(h, verr, primary) ==
    IF verr # "nil" THEN "verify"
    ELSE IF primary /\ Len(h.Naxis) > 0 /\ h.Naxis[1] = 0 THEN "random groups"
    ELSE "none"

\* where Open goes after the class of the header is decided: the primary branch
\* loads whenever there are axes, the extension branch by the cases of switch xten
\* (an XTENSION of any other text, 'SIMPLE' included, loads nothing)
AfterVerify(h, verr, primary, xten) ==
    IF verr # "nil" THEN "done"
    ELSE IF primary
    THEN IF Len(h.Naxis) > 0 THEN (IF h.Naxis[1] = 0 THEN "done" ELSE "load") ELSE "loop"
    ELSE IF xten = sIMAGE THEN (IF Len(h.Naxis) > 0 THEN "load" ELSE "loop")
    ELSE IF xten \in {sTABLE, sBINTABLE} THEN "load"
    ELSE "loop"

\* if _, ok := h.Keys["SIMPLE"]; ok { err = h.verifyPrimary() ... h.class = "SIMPLE" ... }
\* else if xten, ok := h.Keys["XTENSION"].(string); ok { err = h.verifyExtension() ...
\*   h.class = xten ... } else { break }
OpenClassify ==
    /\ pc = "body"
    /\ LET h == CurUnit
       IN  IF Has(h.Keys, kSIMPLE)
           THEN \E verr \in {verifyPrimary(h)} :
                    /\ lerr' = verr
                    /\ fits' = IF verr = "nil"
                               THEN [fits EXCEPT ![Len(fits)].class = kSIMPLE] ELSE fits
                    /\ pc' = AfterVerify(h, verr, TRUE, kSIMPLE)
                    /\ ret' = IF AfterVerify(h, verr, TRUE, kSIMPLE) = "done"
                              THEN Returned(VerifyExit(h, verr, TRUE)) ELSE ret
           ELSE IF IsString(h.Keys, kXTENSION)
           THEN \E verr \in {verifyExtension(h)}, xten \in {h.Keys[kXTENSION].v} :
                    /\ lerr' = verr
                    /\ fits' = IF verr = "nil"
                               THEN [fits EXCEPT ![Len(fits)].class = xten] ELSE fits
                    /\ pc' = AfterVerify(h, verr, FALSE, xten)
                    /\ ret' = IF AfterVerify(h, verr, FALSE, xten) = "done"
                              THEN Returned(VerifyExit(h, verr, FALSE)) ELSE ret
           ELSE /\ pc' = "done"
                /\ fits' = UnknownHeaderExit(fits)
                /\ ret' = Returned("unknown header")
                /\ UNCHANGED lerr
    /\ UNCHANGED <<src, pos, b, err, calls, inp, threads>>

\* err = h.loadData(b)  /  err = h.loadTable(b, false)  /  err = h.loadTable(b, true)
\* (the break after a loader inside the switch on xten leaves the switch only; a
\* Unit of class SIMPLE is loaded by the primary branch alone, since no case of the
\* switch loads an extension that names itself 'SIMPLE')
OpenLoad ==
    /\ pc = "load"
    /\ \E h \in {CurUnit} :
       \E r \in {IF h.class = sTABLE THEN loadTable(src, h, b, pos, FALSE, OpenIO)
                 ELSE IF h.class = sBINTABLE THEN loadTable(src, h, b, pos, TRUE, OpenIO)
                 ELSE loadData(src, h, b, pos, OpenIO)} :
           /\ fits' = [fits EXCEPT ![Len(fits)] = r.h]
           /\ b' = r.b
           /\ pos' = r.pos
           /\ lerr' = r.err
           /\ pc' = IF r.panic THEN "panic"
                    ELSE IF r.err # "nil" /\ h.class = kSIMPLE THEN "done"
                    ELSE "loop"
           /\ ret' = IF ~r.panic /\ r.err # "nil" /\ h.class = kSIMPLE
                     THEN Returned("load") ELSE ret
    /\ UNCHANGED <<src, err, calls, inp, threads>>

OpenNext == OpenHeader \/ OpenLoopEnd \/ OpenClassify \/ OpenLoad

(***************************************************************************)
(* Cards of the inputs                                                     *)
(***************************************************************************)
\* the text "KEY     = literal" of a card that carries a value
ValueCard(key, literal) == SubSeq(key \o Spaces80, 1, 8) \o <<61, 32>> \o literal

EndCard == kEND

\* the literal of a quoted string: every quote of the content doubled
RECURSIVE Quoted(_)
Quoted(content) ==
    IF content = <<>> THEN <<>>
    ELSE (IF content[1] = chQuote THEN <<chQuote, chQuote>> ELSE <<content[1]>>)
             \o Quoted(Tail(content))

QuotedLiteral(content) == <<chQuote>> \o Quoted(content) \o <<chQuote>>

\* a comment after a value
Comment == Str(<<" ", "/", " ", "c">>)

IntCard(key, n) == ValueCard(key, IntToStr(n) \o Comment)
TrueCard(key) == ValueCard(key, <<84>>)
StringCard(key, text) == ValueCard(key, QuotedLiteral(text) \o Comment)

\* the NAXIS1.. cards of the extents nx
NaxisCards(nx) == [i \in 1..Len(nx) |-> IntCard(Nth(kNAXIS, i), nx[i])]

\* the segments of one HDU: the header block of the cards and END, then the data
\* section of n bytes starting with bs, in whole blocks unless cut short
Blocks(n) == ((n + BlockSize - 1) \div BlockSize) * BlockSize

Hdu(cards, bs, n) ==
    <<[t |-> "cards", cards |-> cards \o <<EndCard>>]>>
        \o (IF n > 0 THEN <<[t |-> "bytes", bs |-> bs, len |-> n]>> ELSE <<>>)

kAUTHOR == Str(<<"A", "U", "T", "H", "O", "R">>)
sOBrien == Str(<<"O", "'", "B", "r", "i", "e", "n">>)

(***************************************************************************)
(* NewHeader on a header of one string card                                *)
(***************************************************************************)
MaxContent == 3
ContentChars == {79, chQuote, chSpace, chSlash}

RECURSIVE SeqsUpTo(_, _)
SeqsUpTo(S, n) ==
    IF n = 0 THEN {<<>>}
    ELSE LET T == SeqsUpTo(S, n - 1)
         IN  T \cup {Append(t, x) : t \in {u \in T : Len(u) = n - 1}, x \in S}

StringContents == SeqsUpTo(ContentChars, MaxContent) \cup {sOBrien}

\* what follows the closing quote: nothing, a space, a comment, other characters
StringTails == {<<>>, <<chSpace>>, <<chSpace, chSlash, chSpace, 99>>, <<chSlash, 99>>, <<120>>}

HeaderInit ==
    /\ \E c \in StringContents, t \in StringTails :
          /\ inp = [kind |-> "string", key |-> kAUTHOR, content |-> c, tail |-> t]
          /\ src = <<[t |-> "cards",
                      cards |-> <<ValueCard(kAUTHOR, QuotedLiteral(c) \o t), EndCard>>]>>
    /\ pos = 0
    /\ b = NewReader
    /\ pc = "header"
    /\ fits = NoUnits
    /\ err = "nil"
    /\ ret = [op |-> "none"]
    /\ calls = 0
    /\ lerr = "nil"
    /\ threads = <<>>

\* h, err := b.NewHeader()
NewHeaderCall ==
    /\ pc = "header"
    /\ \E r \in {NewHeader(src, b, pos, FullIO)} :
           /\ b' = r.b
           /\ pos' = r.pos
           /\ ret' = [op |-> "NewHeader", h |-> r.h, err |-> r.err, panic |-> r.panic]
    /\ pc' = "parsed"
    /\ calls' = calls + 1
    /\ UNCHANGED <<src, fits, err, inp, lerr, threads>>

HeaderNext == NewHeaderCall

SpecHeader == HeaderInit /\ [][HeaderNext]_vars

\* C1: after NewHeader, the key of a card whose literal is a well-formed quoted
\* string holds the content with the doubled quotes undone and the trailing spaces
\* trimmed, whether or not anything follows the closing quote.
QuotedStringDecoded ==
    (pc = "parsed" /\ inp.kind = "string") =>
        /\ Has(ret.h.Keys, inp.key)
        /\ ret.h.Keys[inp.key] = vStr(TrimRightBlanks(inp.content))

(***************************************************************************)
(* Open on streams of several HDUs                                         *)
(***************************************************************************)
MaxHdus == 2

sFOO == Str(<<"F", "O", "O">>)
s1I == Str(<<"1", "I">>)

PrimaryCards(bitpix, nx) ==
    <<TrueCard(kSIMPLE), IntCard(kBITPIX, bitpix), IntCard(kNAXIS, Len(nx))>> \o NaxisCards(nx)

ExtensionCards(xten, bitpix, nx) ==
    <<StringCard(kXTENSION, xten), IntCard(kBITPIX, bitpix), IntCard(kNAXIS, Len(nx))>>
        \o NaxisCards(nx)

PGCards == <<IntCard(kPCOUNT, 0), IntCard(kGCOUNT, 1)>>

\* the HDUs the streams are made of, by name
HduOf(name) ==
    IF name = "primary" THEN Hdu(PrimaryCards(8, <<>>), <<>>, 0)
    ELSE IF name = "primary image" THEN Hdu(PrimaryCards(8, <<2>>), <<7, 9>>, BlockSize)
    ELSE IF name = "primary cut" THEN Hdu(PrimaryCards(16, <<2>>), <<0, 7, 9>>, 3)
    ELSE IF name = "primary bitpix 7" THEN Hdu(PrimaryCards(7, <<>>), <<>>, 0)
    ELSE IF name = "primary no naxis"
    THEN Hdu(<<TrueCard(kSIMPLE), IntCard(kBITPIX, 8)>>, <<>>, 0)
    ELSE IF name = "random groups" THEN Hdu(PrimaryCards(8, <<0, 2>>), <<>>, 0)
    ELSE IF name = "image"
    THEN Hdu(ExtensionCards(sIMAGE, 16, <<2>>) \o PGCards, <<0, 7, 255, 254>>, BlockSize)
    ELSE IF name = "image no gcount"
    THEN Hdu(ExtensionCards(sIMAGE, 16, <<2>>) \o <<IntCard(kPCOUNT, 0)>>, <<>>, 0)
    ELSE IF name = "bintable"
    THEN Hdu(ExtensionCards(sBINTABLE, 8, <<2, 2>>) \o PGCards
                 \o <<IntCard(kTFIELDS, 1), StringCard(Nth(kTFORM, 1), s1I)>>,
             <<0, 1, 0, 2>>, BlockSize)
    ELSE IF name = "table bitpix 16"
    THEN Hdu(ExtensionCards(sTABLE, 16, <<2, 2>>) \o PGCards, <<>>, 0)
    ELSE IF name = "bintable naxis 1"
    THEN Hdu(ExtensionCards(sBINTABLE, 8, <<2>>) \o PGCards, <<>>, 0)
    ELSE IF name = "extension foo" THEN Hdu(ExtensionCards(sFOO, 8, <<>>) \o PGCards, <<>>, 0)
    ELSE IF name = "extension simple"            \* XTENSION= 'SIMPLE', one axis
    THEN Hdu(ExtensionCards(kSIMPLE, 8, <<2>>) \o PGCards, <<>>, 0)
    ELSE Hdu(<<IntCard(sFOO, 1)>>, <<>>, 0)      \* "unknown": no SIMPLE, no XTENSION

HduNames ==
    {"primary", "primary image", "primary cut", "primary bitpix 7", "primary no naxis",
     "random groups", "image", "image no gcount", "bintable", "table bitpix 16",
     "bintable naxis 1", "extension foo", "extension simple", "unknown"}

RECURSIVE StreamOf(_)
StreamOf(names) == IF names = <<>> THEN <<>> ELSE HduOf(names[1]) \o StreamOf(Tail(names))

RECURSIVE SeqsOfLen(_, _)
SeqsOfLen(S, n) ==
    IF n = 0 THEN {<<>>} ELSE {Append(t, x) : t \in SeqsOfLen(S, n - 1), x \in S}

\* streams of whole HDUs; only the last one may be cut short
Streams(n) ==
    {names \in SeqsOfLen(HduNames, n) : \A i \in 1..(n - 1) : names[i] # "primary cut"}

OpenInit ==
    /\ \E n \in 1..MaxHdus : \E names \in Streams(n) :
          /\ inp = [kind |-> "hdus", hdus |-> names]
          /\ src = StreamOf(names)
    /\ pos = 0
    /\ b = NewReader
    /\ pc = "loop"
    /\ fits = NoUnits
    /\ err = "nil"
    /\ ret = [op |-> "none"]
    /\ calls = 0
    /\ lerr = "nil"
    /\ threads = <<>>

SpecOpen == OpenInit /\ [][OpenNext]_vars

\* C2 as stated: when Open returns on a header with neither SIMPLE nor XTENSION, fits
\* holds the Units of the headers before it only, and err is nil.
UnknownHeaderContributesNoUnit ==
    (pc = "done" /\ ret.exit = "unknown header") =>
        /\ err = "nil"
        /\ Len(fits) = calls - 1

\* C2 as amended: when Open returns on a header with neither SIMPLE nor XTENSION, fits
\* holds one Unit for every header parsed, the last of them the Unit of the unknown
\* header (its Keys, no class, no data), and err is nil.
UnknownHeaderUnitIsLast ==
    (pc = "done" /\ ret.exit = "unknown header") =>
        /\ err = "nil"
        /\ Len(fits) = calls
        /\ Len(fits) <= Len(inp.hdus)
        /\ inp.hdus[Len(fits)] = "unknown"
        /\ \A j \in 1..(Len(fits) - 1) : inp.hdus[j] # "unknown" /\ fits[j].class # <<>>
        /\ LET u == fits[Len(fits)]
           IN  /\ ~Has(u.Keys, kSIMPLE) /\ ~Has(u.Keys, kXTENSION)
               /\ Has(u.Keys, sFOO)
               /\ u.class = <<>>
               /\ u.dtype = "nil"

\* an unknown header met after a primary HDU with an image
UnknownSecondHeaderWitness ==
    /\ pc = "done" /\ ret.exit = "unknown header"
    /\ inp.hdus = <<"primary image", "unknown">>
    /\ Len(fits) = 2
    /\ fits[1].Data = <<7, 9>>

\* C3: when verifyPrimary or verifyExtension rejects a header, Open returns a non-nil
\* error with the Units collected so far.
VerifyFailureReturnsError ==
    (pc = "done" /\ ret.exit = "verify") => err # "nil"

\* C17: every Unit of fits whose Keys hold an integer NAXIS = n has len(Naxis) = n and
\* Naxis[i] = Keys[NAXIS{i+1}], before and after its loader has run and when Open has
\* returned.
NaxisMirrorsKeys ==
    inp.kind = "hdus" =>
        \A j \in 1..Len(fits) :
            IsInt(fits[j].Keys, kNAXIS) =>
                /\ Len(fits[j].Naxis) = fits[j].Keys[kNAXIS].v
                /\ \A i \in 1..Len(fits[j].Naxis) :
                       /\ Has(fits[j].Keys, Nth(kNAXIS, i))
                       /\ fits[j].Keys[Nth(kNAXIS, i)] = vInt(fits[j].Naxis[i])

\* Open has returned a loaded image and a loaded binary table, whose loader added keys
NaxisAfterLoadersWitness ==
    /\ pc = "done"
    /\ inp.hdus = <<"primary image", "bintable">>
    /\ Len(fits) = 2
    /\ fits[1].Naxis = <<2>> /\ fits[1].Data = <<7, 9>>
    /\ fits[2].Naxis = <<2, 2>> /\ fits[2].dtype = "[]byte"
    /\ Has(fits[2].Keys, Nth(kTTYPE, 1))

\* C18: every Unit of fits whose class is set has class SIMPLE at position 0 and a
\* class among IMAGE, TABLE and BINTABLE at the later positions.
ClassFollowsPosition ==
    inp.kind = "hdus" =>
        \A j \in 1..Len(fits) :
            fits[j].class # <<>> =>
                IF j = 1 THEN fits[j].class = kSIMPLE
                ELSE fits[j].class \in {sIMAGE, sTABLE, sBINTABLE}

(***************************************************************************)
(* Images decoded by Open, then the pixel accessors and Stats              *)
(***************************************************************************)
MaxElems == 2

\* the big-endian bytes of the two's complement of v in w bytes
RECURSIVE EncodeNat(_, _)
EncodeNat(n, w) == IF w = 0 THEN <<>> ELSE EncodeNat(n \div 256, w - 1) \o <<n % 256>>

EncodeInt(v, w) ==
    IF v >= 0 THEN EncodeNat(v, w) ELSE [i \in 1..w |-> 255 - EncodeNat(-v - 1, w)[i]]

Num(neg, m, e) == [cls |-> "num", neg |-> neg, m |-> m, e |-> e]

\* IEEE 754 encodings (binary32, then the bytes after the first two of binary64 are
\* zero), the value, and the results int64() may give: 1.0 to 8.0, -2.5, NaN, 0.0, +Inf
FloatTable ==
    << [b4 |-> <<63, 128, 0, 0>>,  b8 |-> <<63, 240>>,  val |-> Num(FALSE, 1, 0), ints |-> {I64(1)}],
       [b4 |-> <<64, 0, 0, 0>>,    b8 |-> <<64, 0>>,    val |-> Num(FALSE, 1, 1), ints |-> {I64(2)}],
       [b4 |-> <<64, 64, 0, 0>>,   b8 |-> <<64, 8>>,    val |-> Num(FALSE, 3, 0), ints |-> {I64(3)}],
       [b4 |-> <<64, 128, 0, 0>>,  b8 |-> <<64, 16>>,   val |-> Num(FALSE, 1, 2), ints |-> {I64(4)}],
       [b4 |-> <<64, 160, 0, 0>>,  b8 |-> <<64, 20>>,   val |-> Num(FALSE, 5, 0), ints |-> {I64(5)}],
       [b4 |-> <<64, 192, 0, 0>>,  b8 |-> <<64, 24>>,   val |-> Num(FALSE, 3, 1), ints |-> {I64(6)}],
       [b4 |-> <<64, 224, 0, 0>>,  b8 |-> <<64, 28>>,   val |-> Num(FALSE, 7, 0), ints |-> {I64(7)}],
       [b4 |-> <<65, 0, 0, 0>>,    b8 |-> <<64, 32>>,   val |-> Num(FALSE, 1, 3), ints |-> {I64(8)}],
       [b4 |-> <<192, 32, 0, 0>>,  b8 |-> <<192, 4>>,   val |-> Num(TRUE, 5, -1), ints |-> {I64(-2)}],
       [b4 |-> <<127, 192, 0, 0>>, b8 |-> <<127, 248>>, val |-> fNaN, ints |-> ImplDefinedInts],
       [b4 |-> <<0, 0, 0, 0>>,     b8 |-> <<0, 0>>,     val |-> fZero, ints |-> {I64(0)}],
       [b4 |-> <<127, 128, 0, 0>>, b8 |-> <<127, 240>>, val |-> fInf(FALSE), ints |-> ImplDefinedInts] >>

\* an element of a data section: its bytes in the stream, the value of its type, and
\* the results its conversion to int64 may give
IntElem(v, w) == [bytes |-> EncodeInt(v, w), at |-> v, ints |-> {I64(v)}]

FloatElem(i, bitpix) ==
    [bytes |-> IF bitpix = -32 THEN FloatTable[i].b4 ELSE FloatTable[i].b8 \o Repeat(0, 6),
     at |-> FloatTable[i].val, ints |-> FloatTable[i].ints]

Bitpixes == {8, 16, 32, 64, -32, -64}

ElemChoices(bitpix) ==
    IF bitpix = 8 THEN {IntElem(v, 1) : v \in {0, 5, 255}}
    ELSE IF bitpix > 0 THEN {IntElem(v, bitpix \div 8) : v \in {0, 5, -999}}
    ELSE {FloatElem(i, bitpix) : i \in {5, 9, 10, 11}}

\* element k of the images whose element k has the value k
RampElem(k, bitpix) ==
    IF bitpix > 0 THEN IntElem(k, bitpix \div 8) ELSE FloatElem(k, bitpix)

\* the number of elements before the step of axis i: Naxis[0] * ... * Naxis[i-2]
RECURSIVE Stride(_, _)
Stride(nx, i) == IF i = 1 THEN 1 ELSE nx[i - 1] * Stride(nx, i - 1)

Count(nx) == Stride(nx, Len(nx) + 1)

\* a[0] + Naxis[0]*a[1] + Naxis[0]*Naxis[1]*a[2] + ...
RECURSIVE OffsetFrom(_, _, _)
OffsetFrom(nx, a, i) ==
    IF i > Len(nx) THEN 0 ELSE a[i] * Stride(nx, i) + OffsetFrom(nx, a, i + 1)

Offset(nx, a) == OffsetFrom(nx, a, 1)

\* the shapes whose elements are chosen freely, and the shapes filled with 1, 2, 3, ...
FreeShapes == {nx \in SeqsUpTo(1..MaxElems, 2) : nx # <<>> /\ Count(nx) <= MaxElems}
RampShapes == {<<3, 2>>, <<2, 3>>, <<2, 2, 2>>, <<2, 0>>}

BlankChoices == {[has |-> FALSE, v |-> 0], [has |-> TRUE, v |-> 0],
                 [has |-> TRUE, v |-> -999], [has |-> TRUE, v |-> 5]}

ImageOf(ext, bitpix, nx, blank, vals) ==
    [kind |-> "image", ext |-> ext, bitpix |-> bitpix, naxis |-> nx, blank |-> blank,
     vals |-> vals]

FreeImages ==
    UNION {{ImageOf(FALSE, bp, nx, bl, vs) : vs \in SeqsOfLen(ElemChoices(bp), Count(nx))} :
               bp \in Bitpixes, nx \in FreeShapes, bl \in BlankChoices}

RampImages ==
    {ImageOf(ext, bp, nx, bl, [k \in 1..Count(nx) |-> RampElem(k, bp)]) :
         ext \in BOOLEAN, bp \in Bitpixes, nx \in RampShapes, bl \in BlankChoices}

RECURSIVE BytesOf(_)
BytesOf(vals) == IF vals = <<>> THEN <<>> ELSE vals[1].bytes \o BytesOf(Tail(vals))

\* the stream of an image: as the primary HDU, or as an IMAGE extension after a
\* primary HDU without data
ImageStream(im) ==
    (IF im.ext THEN Hdu(PrimaryCards(8, <<>>), <<>>, 0) ELSE <<>>)
        \o Hdu((IF im.ext THEN ExtensionCards(sIMAGE, im.bitpix, im.naxis) \o PGCards
                ELSE PrimaryCards(im.bitpix, im.naxis))
                   \o (IF im.blank.has THEN <<IntCard(kBLANK, im.blank.v)>> ELSE <<>>),
               BytesOf(im.vals), Blocks(Len(BytesOf(im.vals))))

ImageInit ==
    /\ inp \in FreeImages \cup RampImages
    /\ src = ImageStream(inp)
    /\ pos = 0
    /\ b = NewReader
    /\ pc = "loop"
    /\ fits = NoUnits
    /\ err = "nil"
    /\ ret = [op |-> "none"]
    /\ calls = 0
    /\ lerr = "nil"
    /\ threads = <<>>

\* the coordinates within the extents nx
Coords(nx) ==
    IF \E i \in 1..Len(nx) : nx[i] <= 0 THEN {}
    ELSE {a \in [1..Len(nx) -> 0..(Max(1, Count(nx)) - 1)] : \A i \in 1..Len(nx) : a[i] < nx[i]}

\* h.HasImage(): the class and the first axis; Data is not looked at
HasImage(h) == h.class \in {kSIMPLE, sIMAGE} /\ Len(h.Naxis) > 0 /\ h.Naxis[1] > 0

\* Open has returned and loadData has given its last Unit Data and the accessors At,
\* IntAt, FloatAt and Blank (it ran past the return for an empty Naxis): the Units the
\* pixel calls and Stats are made on
ImageLoaded ==
    /\ pc = "done"
    /\ Len(fits) > 0
    /\ CurUnit.class \in {kSIMPLE, sIMAGE}
    /\ CurUnit.dtype \notin {"nil", "[]int"}

\* x := h.At(a...); n := h.IntAt(a...); f := h.FloatAt(a...); bl := h.Blank(a...)
PixelCall ==
    /\ ImageLoaded
    /\ \E a \in Coords(CurUnit.Naxis) : \E n \in IntAt(CurUnit, a) :
          ret' = [op |-> "pixel", a |-> a, at |-> At(CurUnit, a), intat |-> n,
                  floatat |-> FloatAt(CurUnit, a), blank |-> Blank(CurUnit, a)]
    /\ UNCHANGED <<src, pos, b, pc, fits, err, calls, inp, lerr, threads>>

\* min, max := h.Stats()
StatsCall ==
    /\ ImageLoaded
    /\ \E r \in {Stats(CurUnit)} : ret' = [op |-> "Stats", min |-> r.min, max |-> r.max]
    /\ UNCHANGED <<src, pos, b, pc, fits, err, calls, inp, lerr, threads>>

\* ok := fits[u].HasImage() on a Unit Open returned
HasImageCall ==
    /\ pc = "done"
    /\ \E u \in 1..Len(fits) : ret' = [op |-> "HasImage", u |-> u, v |-> HasImage(fits[u])]
    /\ UNCHANGED <<src, pos, b, pc, fits, err, calls, inp, lerr, threads>>

ImageNext ==
    OpenHeader \/ OpenClassify \/ OpenLoad \/ PixelCall \/ StatsCall \/ HasImageCall

SpecImage == ImageInit /\ [][ImageNext]_vars

\* the element of the data section that the coordinates of the last pixel call name
Addressed == inp.vals[Offset(inp.naxis, ret.a) + 1]

\* the float f is the integer v
FloatIsInt(f, v) ==
    /\ f.cls = "num"
    /\ f.e >= 0
    /\ f.neg = (v < 0)
    /\ f.m * Pow2(f.e) = (IF v < 0 THEN -v ELSE v)

\* C5: for in-range coordinates a, At, IntAt and FloatAt give element
\* a[0] + Naxis[0]*(a[1] + Naxis[1]*(a[2] + ...)) of the data section (axis 0 fastest).
PixelAddressing ==
    (inp.kind = "image" /\ ret.op = "pixel") =>
        /\ ret.at = Addressed.at
        /\ ret.intat \in Addressed.ints
        /\ IF inp.bitpix > 0 THEN FloatIsInt(ret.floatat, Addressed.at)
           ELSE ret.floatat = Addressed.at

\* the example of the specification: Naxis = [3, 2] over 1..6, pixel (2, 1) is 6
PixelExampleWitness ==
    /\ ret.op = "pixel"
    /\ inp.naxis = <<3, 2>> /\ inp.bitpix = 16
    /\ ret.a = <<2, 1>>
    /\ ret.at = 6 /\ ret.intat = I64(6)

\* the Data type of a BITPIX
TypeOfBitpix(bitpix) ==
    CASE bitpix = 8 -> "[]byte" [] bitpix = 16 -> "[]int16" [] bitpix = 32 -> "[]int32"
      [] bitpix = 64 -> "[]int64" [] bitpix = -32 -> "[]float32" [] bitpix = -64 -> "[]float64"

\* the results int64() may give for a float of the table
TruncationsOf(f) == UNION {FloatTable[i].ints : i \in {j \in DOMAIN FloatTable : FloatTable[j].val = f}}

\* C6: after loadData, Data has product(Naxis) elements of the type of BITPIX, and
\* IntAt and FloatAt give the conversion of the element At gives.
DataShapeAndWidening ==
    /\ (inp.kind = "image" /\ ImageLoaded) =>
          /\ Len(CurUnit.Data) = Count(inp.naxis)
          /\ CurUnit.dtype = TypeOfBitpix(inp.bitpix)
    /\ (inp.kind = "image" /\ ret.op = "pixel") =>
          IF inp.bitpix > 0
          THEN ret.intat = I64(ret.at) /\ FloatIsInt(ret.floatat, ret.at)
          ELSE ret.floatat = ret.at /\ ret.intat \in TruncationsOf(ret.at)

\* a negative 64-bit element read through all three accessors
WideningWitness ==
    /\ ret.op = "pixel"
    /\ inp.bitpix = 64 /\ inp.naxis = <<1, 2>>
    /\ Len(CurUnit.Data) = 2
    /\ ret.at = -999 /\ ret.intat = I64(-999) /\ ret.floatat = Num(TRUE, 999, 0)

\* whether the Blank of the interface is expected on the addressed element
BlankExpected(e) ==
    IF inp.bitpix > 0 THEN inp.blank.has /\ e.at = inp.blank.v ELSE e.at.cls = "nan"

\* C7: Blank(a) is true on an integer image exactly when the header has BLANK and the
\* element equals it, on a float image exactly when the element is NaN (whatever
\* BLANK says), and is false on an integer image without BLANK.
BlankMatchesHeader ==
    (inp.kind = "image" /\ ret.op = "pixel") => (ret.blank = BlankExpected(Addressed))

\* BLANK = -999 on a 16-bit image: a pixel of value -999 is blank
BlankWitness ==
    /\ ret.op = "pixel"
    /\ inp.bitpix = 16 /\ inp.blank = [has |-> TRUE, v |-> -999]
    /\ ret.at = -999 /\ ret.blank

\* the float of element k of the data section
ValueOf(k) == IF inp.bitpix > 0 THEN FloatOfInt(inp.vals[k].at) ELSE inp.vals[k].at

\* C8: the elements Stats leaves out are exactly those whose Blank is true: min and
\* max bound every non-blank element (0 included when the header has no BLANK).
StatsOverNonBlank ==
    (inp.kind = "image" /\ ret.op = "Stats" /\ Count(inp.naxis) # 1) =>
        \A k \in 1..Len(inp.vals) :
            ~BlankExpected(inp.vals[k]) =>
                /\ ~FloatLess(ValueOf(k), ret.min)
                /\ ~FloatLess(ret.max, ValueOf(k))

\* C24: when the image has an element that is not blank, Stats returns min <= max, min
\* the smallest and max the largest value of the elements that are not blank (also
\* when the image has one element only).
StatsMinMaxAreElements ==
    (inp.kind = "image" /\ ret.op = "Stats"
         /\ \E k \in 1..Len(inp.vals) : ~BlankExpected(inp.vals[k])) =>
        /\ ~FloatLess(ret.max, ret.min)
        /\ \E k \in 1..Len(inp.vals) : ~BlankExpected(inp.vals[k]) /\ ValueOf(k) = ret.min
        /\ \E k \in 1..Len(inp.vals) : ~BlankExpected(inp.vals[k]) /\ ValueOf(k) = ret.max
        /\ \A k \in 1..Len(inp.vals) :
              ~BlankExpected(inp.vals[k]) =>
                  /\ ~FloatLess(ValueOf(k), ret.min)
                  /\ ~FloatLess(ret.max, ValueOf(k))

(***************************************************************************)
(* Tables decoded by Open, then calls of their field accessors             *)
(***************************************************************************)
MaxRows == 2

\* a cell of a row: its bytes in the row and the value the accessor is to return
Cell(bytes, t, v) == [bytes |-> bytes, x |-> [t |-> t, v |-> v]]
CellArray(bytes, elem, vs) == [bytes |-> bytes, x |-> [t |-> "[]", elem |-> elem, v |-> vs]]

Int16Cell(v) == Cell(EncodeInt(v, 2), "int16", v)
Int32Cell(v) == Cell(EncodeInt(v, 4), "int32", v)
Int64Cell(v) == Cell(EncodeInt(v, 8), "int64", I64(v))
StringCell(text) == Cell(text, "string", text)
Float32Cell(i) == Cell(FloatTable[i].b4, "float32", FloatTable[i].val)
Float64Cell(i) == Cell(FloatTable[i].b8 \o Repeat(0, 6), "float64", FloatTable[i].val)
TextIntCell(text, v) == Cell(text, "int", v)

\* the layouts: binary or text, the TFORM of each field, the TBCOL of a text field,
\* the bytes of a row after its last field, and the rows a table may hold
Layouts ==
    { [name |-> "I 2B 3A", binary |-> TRUE,
       forms |-> <<Str(<<"I">>), Str(<<"2", "B">>), Str(<<"3", "A">>)>>, cols |-> <<>>, pad |-> 0,
       rows |-> { <<Int16Cell(1), CellArray(<<2, 3>>, "uint8", <<2, 3>>),
                    StringCell(Str(<<"a", "b", "c">>))>>,
                  <<Int16Cell(-258), CellArray(<<255, 0>>, "uint8", <<255, 0>>),
                    StringCell(Str(<<"'", "/", " ">>))>> }],
      [name |-> "1E 1J 1L 1D", binary |-> TRUE,
       forms |-> <<Str(<<"1", "E">>), Str(<<"1", "J">>), Str(<<"1", "L">>), Str(<<"1", "D">>)>>,
       cols |-> <<>>, pad |-> 1,
       rows |-> { <<Float32Cell(1), Int32Cell(70000), Cell(<<1>>, "bool", TRUE), Float64Cell(9)>>,
                  <<Float32Cell(10), Int32Cell(-1), Cell(<<0>>, "bool", FALSE), Float64Cell(11)>> }],
      [name |-> "1K 1C 2I", binary |-> TRUE,
       forms |-> <<Str(<<"1", "K">>), Str(<<"1", "C">>), Str(<<"2", "I">>)>>,
       cols |-> <<>>, pad |-> 0,
       rows |-> { <<Int64Cell(5),
                    Cell(FloatTable[1].b4 \o FloatTable[2].b4, "complex64",
                         <<FloatTable[1].val, FloatTable[2].val>>),
                    CellArray(EncodeInt(1, 2) \o EncodeInt(-1, 2), "int16", <<1, -1>>)>>,
                  <<Int64Cell(-999),
                    Cell(FloatTable[11].b4 \o FloatTable[10].b4, "complex64",
                         <<FloatTable[11].val, FloatTable[10].val>>),
                    CellArray(EncodeInt(0, 2) \o EncodeInt(300, 2), "int16", <<0, 300>>)>> }],
      [name |-> "A3 I4 I2", binary |-> FALSE,
       forms |-> <<Str(<<"A", "3">>), Str(<<"I", "4">>), Str(<<"I", "2">>)>>,
       cols |-> <<1, 4, 9>>, pad |-> 1,
       rows |-> { <<StringCell(Str(<<"a", "b", "c">>)), TextIntCell(Str(<<" ", "1", "2", " ">>), 12),
                    StringCell(<<32>>), TextIntCell(Str(<<"-", "7">>), -7)>>,
                  <<StringCell(Str(<<" ", "'", "x">>)), TextIntCell(Str(<<"0", "0", "4", "2">>), 42),
                    StringCell(<<32>>), TextIntCell(Str(<<"+", "3">>), 3)>> }] }

\* the cells of a row that are fields (a text row has a filler between I4 and I2)
FieldCells(lay, row) == IF lay.binary THEN row ELSE <<row[1], row[2], row[4]>>

RowBytes(lay, row) == BytesOf(row) \o Repeat(32, lay.pad)

RECURSIVE RowsBytes(_, _)
RowsBytes(lay, rows) ==
    IF rows = <<>> THEN <<>> ELSE RowBytes(lay, rows[1]) \o RowsBytes(lay, Tail(rows))

TableInputs ==
    UNION {{[kind |-> "table", layout |-> lay.name, binary |-> lay.binary,
             width |-> Len(RowBytes(lay, rows[1])),
             cells |-> [r \in 1..Len(rows) |-> FieldCells(lay, rows[r])],
             data |-> RowsBytes(lay, rows), forms |-> lay.forms, cols |-> lay.cols] :
               rows \in UNION {SeqsOfLen(lay.rows, n) : n \in 1..MaxRows}} : lay \in Layouts}

\* the TFORM cards, and for a text table the TBCOL cards
RECURSIVE FieldCards(_, _)
FieldCards(tb, i) ==
    IF i > Len(tb.forms) THEN <<>>
    ELSE <<StringCard(Nth(kTFORM, i), tb.forms[i])>>
             \o (IF tb.binary THEN <<>> ELSE <<IntCard(Nth(kTBCOL, i), tb.cols[i])>>)
             \o FieldCards(tb, i + 1)

\* the stream of a table: a primary HDU without data, then the extension
TableStream(tb) ==
    Hdu(PrimaryCards(8, <<>>), <<>>, 0)
        \o Hdu(ExtensionCards(IF tb.binary THEN sBINTABLE ELSE sTABLE, 8,
                              <<tb.width, Len(tb.cells)>>)
                   \o PGCards \o <<IntCard(kTFIELDS, Len(tb.forms))>> \o FieldCards(tb, 1),
               tb.data, Blocks(Len(tb.data)))

TableInit ==
    /\ inp \in TableInputs
    /\ src = TableStream(inp)
    /\ pos = 0
    /\ b = NewReader
    /\ pc = "loop"
    /\ fits = NoUnits
    /\ err = "nil"
    /\ ret = [op |-> "none"]
    /\ calls = 0
    /\ lerr = "nil"
    /\ threads = <<>>

\* h.HasTable(): the class alone
HasTable(h) == h.class \in {sTABLE, sBINTABLE}

\* Open has returned and loadTable has given its last Unit Data and list: the Units
\* the FieldFuncs are called on
TableReady ==
    /\ pc = "done"
    /\ Len(fits) > 0
    /\ HasTable(CurUnit)
    /\ CurUnit.dtype = "[]byte"

\* x := h.list[i](row), one call after another: the cursor of the Reader the
\* FieldFunc closes over is what the call leaves; was is the cursor the call found,
\* left there by the call of the same FieldFunc before it (0 when it is the first)
FieldCall ==
    /\ TableReady
    /\ \E i \in 1..Len(CurUnit.list) : \E row \in -1..CurUnit.Naxis[2] :
          /\ CurUnit.list[i].set
          /\ \E r \in {FieldFunc(CurUnit, CurUnit.list[i], row)} :
                /\ fits' = [fits EXCEPT ![Len(fits)].list[i].left = r.left,
                                         ![Len(fits)].list[i].elem = r.elem]
                /\ ret' = [op |-> "field", i |-> i, row |-> row, x |-> r.x, panic |-> r.panic,
                           was |-> CurUnit.list[i].left]
    /\ UNCHANGED <<src, pos, b, pc, err, calls, inp, lerr, threads>>

TableNext == OpenHeader \/ OpenClassify \/ OpenLoad \/ FieldCall

SpecTable == TableInit /\ [][TableNext]_vars

\* C9: after any sequence of calls of the field accessors, a call with
\* 0 <= row < Naxis[1] returns the value of its field in its row (decoded at
\* row*Naxis[0] + column offset), and a call with any other row returns nil without
\* a panic.
FieldCallReturnsOwnCell ==
    (inp.kind = "table" /\ ret.op = "field") =>
        /\ ~ret.panic
        /\ IF ret.row >= 0 /\ ret.row < Len(inp.cells)
           THEN ret.x = inp.cells[ret.row + 1][ret.i].x
           ELSE ret.x = vNilCell

\* the accessor of field I called for row 0 after an earlier call of the same accessor
\* for row 1 left its cursor behind the cell of row 1, whose value is another one
FieldAfterOtherRowWitness ==
    /\ ret.op = "field"
    /\ inp.layout = "I 2B 3A" /\ Len(inp.cells) = 2
    /\ ret.i = 1 /\ ret.row = 0
    /\ ret.was = inp.width + 2
    /\ ret.x = [t |-> "int16", v |-> 1]
    /\ inp.cells[2][1].x = [t |-> "int16", v |-> -258]

(***************************************************************************)
(* Two goroutines inside the same FieldFunc                                *)
(***************************************************************************)
Goroutines == {1, 2}

\* the tables the two goroutines call into: typed reads of 1 and 2 bytes (I, 2B),
\* ReadString (3A, and the fields of the text table)
ConcLayouts == {"I 2B 3A", "A3 I4 I2"}

\* the tables of at least two rows, the field whose FieldFunc is called, and the rows
\* the two goroutines ask for
ConcInit ==
    /\ inp \in {tb \in TableInputs : Len(tb.cells) >= 2 /\ tb.layout \in ConcLayouts}
    /\ src = TableStream(inp)
    /\ pos = 0
    /\ b = NewReader
    /\ pc = "loop"
    /\ fits = NoUnits
    /\ err = "nil"
    /\ ret = [op |-> "none"]
    /\ calls = 0
    /\ lerr = "nil"
    /\ \E i \in 1..Len(inp.forms) : \E r1 \in 0..(Len(inp.cells) - 1) :
       \E r2 \in (r1 + 1)..(Len(inp.cells) - 1) :
          threads = [g \in Goroutines |->
                        [pc |-> "idle", i |-> i, row |-> IF g = 1 THEN r1 ELSE r2, lo |-> 0,
                         k |-> 0, todo |-> {}, ld |-> 0, p |-> <<>>, got |-> <<>>,
                         chunks |-> <<>>, x |-> vNilCell]]

\* the FieldFunc goroutine g is in, and the size of the b.Read it is at
FuncOf(g) == CurUnit.list[threads[g].i]
WidthOf(g) == ReadWidths(FuncOf(g))[Len(threads[g].chunks) + 1]

\* var m sync.Mutex; m.Lock(): the mutex is a local variable of this call, so the
\* Lock never waits.  if row < 0 || row >= h.Naxis[1] { return nil }
GoEnter(g) ==
    /\ TableReady
    /\ threads[g].pc = "idle"
    /\ FuncOf(g).set
    /\ threads' = [threads EXCEPT ![g].pc =
                      IF BadRow(CurUnit, threads[g].row) THEN "returned" ELSE "seek"]
    /\ UNCHANGED <<src, pos, b, pc, fits, err, ret, calls, inp, lerr>>

\* b.left = row*h.Naxis[0] + c
GoSeek(g) ==
    /\ threads[g].pc = "seek"
    /\ fits' = [fits EXCEPT ![Len(fits)].list[threads[g].i].left =
                   CursorFor(CurUnit, FuncOf(g), threads[g].row)]
    /\ threads' = [threads EXCEPT ![g].pc = "slice"]
    /\ UNCHANGED <<src, pos, b, pc, err, ret, calls, inp, lerr>>

\* p as copy(p[n:], b.buf[left:b.right]) fills it with k bytes
Copied(p, left, k) == SubSeq(CurUnit.Data, left + 1, left + k) \o SubSeq(p, k + 1, Len(p))

\* b.buf[b.left:b.right] of Reader.Read on the Reader of the FieldFunc: the load of
\* b.left (b.buf is the blob and b.right its length, neither is written after
\* loadTable), the bounds check, and the number k of bytes copy is to move.  In
\* ReadString the destination p belongs to this call, so its copy from the blob is
\* done here; in a typed read the destination is b.elem[0:w], the array every call of
\* the FieldFunc writes to, and the bytes are stored by GoCopy.
GoSlice(g) ==
    /\ threads[g].pc = "slice"
    /\ \E left \in {FuncOf(g).left}, w \in {WidthOf(g)} :
          IF w < 0 \/ left < 0 \/ left > Len(CurUnit.Data)
          THEN threads' = [threads EXCEPT ![g].pc = "panicked"]
          ELSE \E k \in {Min(w, Len(CurUnit.Data) - left)} :
                  IF TypedRead(FuncOf(g))
                  THEN threads' = [threads EXCEPT
                                      ![g].pc = IF k = 0 THEN "load" ELSE "copy",
                                      ![g].lo = left, ![g].k = k, ![g].todo = 1..k]
                  ELSE threads' = [threads EXCEPT
                                      ![g].pc = "load", ![g].lo = left, ![g].k = k,
                                      ![g].p = Copied(Repeat(0, w), left, k)]
    /\ UNCHANGED <<src, pos, b, pc, fits, err, ret, calls, inp, lerr>>

\* k := copy(b.elem[0:w], b.buf[lo:b.right]), one byte of it: the bytes are stored
\* into the shared array one by one while the other goroutine runs, in an order the
\* runtime chooses
GoCopy(g) ==
    /\ threads[g].pc = "copy"
    /\ \E j \in threads[g].todo :
          /\ fits' = [fits EXCEPT ![Len(fits)].list[threads[g].i].elem[j] =
                         CurUnit.Data[threads[g].lo + j]]
          /\ threads' = [threads EXCEPT
                            ![g].todo = @ \ {j},
                            ![g].pc = IF threads[g].todo = {j} THEN "load" ELSE "copy"]
    /\ UNCHANGED <<src, pos, b, pc, err, ret, calls, inp, lerr>>

\* b.left += k, the load: the cursor is read without any lock held in common
GoLoad(g) ==
    /\ threads[g].pc = "load"
    /\ threads' = [threads EXCEPT ![g].pc = "store", ![g].ld = FuncOf(g).left]
    /\ UNCHANGED <<src, pos, b, pc, fits, err, ret, calls, inp, lerr>>

\* the bytes of b.elem[0:w] a typed read has still to read (-1)
Unread(w) == [j \in 1..w |-> -1]

\* b.left += k, the store of the sum; if n == m { return n, nil }; otherwise
\* b.reader.Read on the nil reader panics
GoStore(g) ==
    /\ threads[g].pc = "store"
    /\ fits' = [fits EXCEPT ![Len(fits)].list[threads[g].i].left =
                   threads[g].ld + threads[g].k]
    /\ threads' = [threads EXCEPT
                      ![g].pc = IF threads[g].k < WidthOf(g) THEN "panicked"
                                ELSE IF TypedRead(FuncOf(g)) THEN "decode"
                                ELSE "value",
                      ![g].got = Unread(WidthOf(g))]
    /\ UNCHANGED <<src, pos, b, pc, err, ret, calls, inp, lerr>>

\* one operand b.elem[j] of the expression a typed read returns
\* (uint16(b.elem[1]) | uint16(b.elem[0])<<8, ...): each byte is read from the shared
\* array on its own, in an order the compiler chooses
GoDecode(g) ==
    /\ threads[g].pc = "decode"
    /\ \E j \in {n \in 1..WidthOf(g) : threads[g].got[n] = -1} :
          threads' = [threads EXCEPT
                         ![g].got[j] = FuncOf(g).elem[j],
                         ![g].pc = IF \A n \in 1..WidthOf(g) : n = j \/ threads[g].got[n] # -1
                                   THEN "value" ELSE "decode"]
    /\ UNCHANGED <<src, pos, b, pc, fits, err, ret, calls, inp, lerr>>

\* the bytes the value of the read is made of: the bytes read from b.elem in a typed
\* read, its own p in ReadString
Decoded(g) == IF TypedRead(FuncOf(g)) THEN threads[g].got ELSE threads[g].p

\* the value of the read (int16(x), ..., math.Float64frombits(x), string(p)).  After
\* the last read of f: x := f(); m.Unlock(); return x
GoValue(g) ==
    /\ threads[g].pc = "value"
    /\ \E chunks \in {Append(threads[g].chunks, Decoded(g))} :
          threads' = [threads EXCEPT
                         ![g].chunks = chunks,
                         ![g].pc = IF Len(chunks) = Len(ReadWidths(FuncOf(g)))
                                   THEN "returned" ELSE "slice",
                         ![g].x = IF Len(chunks) = Len(ReadWidths(FuncOf(g)))
                                  THEN CellValue(FuncOf(g), chunks) ELSE @]
    /\ UNCHANGED <<src, pos, b, pc, fits, err, ret, calls, inp, lerr>>

ConcNext ==
    \/ OpenHeader \/ OpenClassify \/ OpenLoad
    \/ \E g \in Goroutines :
          \/ GoEnter(g) \/ GoSeek(g) \/ GoSlice(g) \/ GoCopy(g)
          \/ GoLoad(g) \/ GoStore(g) \/ GoDecode(g) \/ GoValue(g)

SpecConc == ConcInit /\ [][ConcNext]_vars

\* C10: two goroutines in the same FieldFunc with different in-range rows: no
\* interleaving lets the cursor one call has set be overwritten before that call
\* decodes, so each call returns the value of its own row.
ConcurrentCallsReturnOwnRow ==
    (inp.kind = "table" /\ threads # <<>>) =>
        \A g \in Goroutines :
            /\ threads[g].pc # "panicked"
            /\ threads[g].pc = "returned" =>
                  threads[g].x = inp.cells[threads[g].row + 1][threads[g].i].x

(***************************************************************************)
(* Sequences of Read calls on a Reader                                     *)
(***************************************************************************)
MaxReads == 2
ReadSizes == {0, 1, 2, 8, BlockSize - 1, BlockSize, BlockSize + 1, 2 * BlockSize - 3}
ReadChunks == {1000, BlockSize}
ReadSourceLens == {5, BlockSize, BlockSize + 2, 2 * BlockSize + 1}


\* the lengths ReadString is asked for
StringSizes == {0, 3, BlockSize + 1}

ReadInit ==
    /\ src \in {<<[t |-> "ramp", len |-> n]>> : n \in ReadSourceLens}
    /\ pos = 0
    /\ b = NewReader
    /\ pc = "read"
    /\ fits = NoUnits
    /\ err = "nil"
    /\ ret = [op |-> "none", m |-> 0, n |-> 0, err |-> "nil", p |-> <<>>, start |-> 0,
              panic |-> FALSE, v |-> 0, paged |-> FALSE]
    /\ calls = 0
    /\ inp = [kind |-> "ramp"]
    /\ lerr = "nil"
    /\ threads = <<>>

\* n, err := b.Read(p) with len(p) = m
ReadCall(m, io) ==
    /\ pc = "read"
    /\ calls < MaxReads
    /\ \E r \in {Read(src, b, pos, Repeat(0, m), io)} :
           /\ b' = r.b
           /\ pos' = r.pos
           /\ ret' = [op |-> "Read", m |-> m, n |-> r.n, err |-> r.err, p |-> r.p,
                      start |-> ret.start + ret.n, panic |-> r.panic, v |-> 0,
                      paged |-> ret.paged]
    /\ calls' = calls + 1
    /\ UNCHANGED <<src, pc, fits, err, inp, lerr, threads>>

\* the typed reads of the Reader,  b.Read(b.elem[0:w])  and the value of b.elem[0:w]
TypedReads == {"ReadByte", "ReadBool", "ReadInt16", "ReadInt32", "ReadInt64",
               "ReadFloat32", "ReadFloat64"}

TypedWidth(op) ==
    IF op \in {"ReadByte", "ReadBool"} THEN 1
    ELSE IF op = "ReadInt16" THEN 2
    ELSE IF op \in {"ReadInt32", "ReadFloat32"} THEN 4
    ELSE 8

TypedValue(op, bytes) ==
    IF op = "ReadByte" THEN bytes[1]
    ELSE IF op = "ReadBool" THEN bytes[1] # 0
    ELSE IF op \in {"ReadInt16", "ReadInt32"} THEN Signed(bytes)
    ELSE IF op = "ReadInt64" THEN Int64Value(bytes)
    ELSE FloatFromBits(bytes)

\* x := b.ReadXxx()
TypedCall(op, io) ==
    /\ pc = "read"
    /\ calls < MaxReads
    /\ \E r \in {ReadElem(src, b, pos, TypedWidth(op), io)} :
           /\ b' = r.b
           /\ pos' = r.pos
           /\ ret' = [op |-> op, m |-> TypedWidth(op), n |-> r.n, err |-> "nil",
                      p |-> r.bytes, start |-> ret.start + ret.n, panic |-> r.panic,
                      v |-> TypedValue(op, r.bytes), paged |-> ret.paged]
    /\ calls' = calls + 1
    /\ UNCHANGED <<src, pc, fits, err, inp, lerr, threads>>

\* x := b.ReadByte()
ReadByteCall(io) == TypedCall("ReadByte", io)

\* x := b.ReadBool()
ReadBoolCall(io) == TypedCall("ReadBool", io)

\* x := b.ReadInt16()
ReadInt16Call(io) == TypedCall("ReadInt16", io)

\* x := b.ReadInt32()
ReadInt32Call(io) == TypedCall("ReadInt32", io)

\* x := b.ReadInt64()
ReadInt64Call(io) == TypedCall("ReadInt64", io)

\* x := b.ReadFloat32()
ReadFloat32Call(io) == TypedCall("ReadFloat32", io)

\* x := b.ReadFloat64()
ReadFloat64Call(io) == TypedCall("ReadFloat64", io)

\* s := b.ReadString(m):  p := make([]byte, m); b.Read(p); return string(p)
ReadStringCall(m, io) ==
    /\ pc = "read"
    /\ calls < MaxReads
    /\ \E r \in {Read(src, b, pos, Repeat(0, m), io)} :
           /\ b' = r.b
           /\ pos' = r.pos
           /\ ret' = [op |-> "ReadString", m |-> m, n |-> r.n, err |-> "nil", p |-> r.p,
                      start |-> ret.start + ret.n, panic |-> r.panic, v |-> r.p,
                      paged |-> ret.paged]
    /\ calls' = calls + 1
    /\ UNCHANGED <<src, pc, fits, err, inp, lerr, threads>>

\* buf, err := b.NextPage(): the rest of the block is dropped, the Reads after it go
\* on from the source position the underlying read reached
NextPageCall(io) ==
    /\ pc = "read"
    /\ calls < MaxReads
    /\ \E r \in {NextPage(src, b, pos, io)} :
           /\ b' = r.b
           /\ pos' = r.pos
           /\ ret' = [op |-> "NextPage", m |-> 0, n |-> 0, err |-> r.err, p |-> r.buf,
                      start |-> r.pos, panic |-> FALSE, v |-> 0, paged |-> TRUE]
    /\ calls' = calls + 1
    /\ UNCHANGED <<src, pc, fits, err, inp, lerr, threads>>

\* the ways the underlying reader delivers
ReadIOs == {[chunk |-> c, dataEOF |-> d, kind |-> "reader"] : c \in ReadChunks, d \in BOOLEAN}

ReadNext ==
    \/ \E m \in ReadSizes, io \in ReadIOs : ReadCall(m, io)
    \/ \E io \in ReadIOs : ReadByteCall(io)
    \/ \E io \in ReadIOs : ReadBoolCall(io)
    \/ \E io \in ReadIOs : ReadInt16Call(io)
    \/ \E io \in ReadIOs : ReadInt32Call(io)
    \/ \E io \in ReadIOs : ReadInt64Call(io)
    \/ \E io \in ReadIOs : ReadFloat32Call(io)
    \/ \E io \in ReadIOs : ReadFloat64Call(io)
    \/ \E m \in StringSizes, io \in ReadIOs : ReadStringCall(m, io)
    \/ \E io \in ReadIOs : NextPageCall(io)

SpecRead == ReadInit /\ [][ReadNext]_vars

\* C4: over a sequence of Read calls with no NextPage in between (the typed reads and
\* ReadString read through Read), the bytes a call returns are the bytes of the source
\* that follow the bytes returned by the calls before it, wherever the request falls in
\* the blocks and however the underlying reads deliver; the error is nil; a call that
\* returns fewer bytes than asked has met the end of the source and IsEOF is true.
ReadReturnsStreamPrefix ==
    (pc = "read" /\ calls > 0 /\ ~ret.paged) =>
        /\ ~ret.panic
        /\ ret.err = "nil"
        /\ ret.n <= ret.m
        /\ ret.start + ret.n <= Len(Flat(src))
        /\ SubSeq(ret.p, 1, ret.n) = SubSeq(Flat(src), ret.start + 1, ret.start + ret.n)
        /\ (ret.n < ret.m => IsEOF(b))
        /\ (ret.op = "ReadInt16" /\ ret.n = 2 =>
                ret.v = Signed(SubSeq(Flat(src), ret.start + 1, ret.start + 2)))

\* a request larger than a block, served across two refills, and one cut by the end
ReadAcrossBlocksWitness ==
    /\ pc = "read" /\ calls = MaxReads /\ ~ret.paged
    /\ ret.op = "Read" /\ ret.m = BlockSize + 1 /\ ret.n < ret.m /\ ret.n > 0
    /\ ret.start > BlockSize
    /\ IsEOF(b)

(***************************************************************************)
(* Binary tables with named and unnamed columns, then Field and Format     *)
(***************************************************************************)
MaxCols == 2

sFLUX == Str(<<"F", "L", "U", "X">>)
sID   == Str(<<"I", "D">>)
sGAP  == Str(<<"G", "A", "P">>)
sNOPE == Str(<<"N", "O", "P", "E">>)
sF104 == Str(<<"F", "1", "0", ".", "4">>)

\* float32(987.654321) = 505679 * 2^-9 = 987.654296875, and its bytes
Flux987 == Cell(<<68, 118, 233, 224>>, "float32", Num(FALSE, 505679, -9))

\* the columns the tables are made of: TFORM, TTYPE (named) and TDISP (shown) when the
\* header has them, the cells of the two rows, and for FLUX the digits Format is to show
TableColumns ==
    {[form |-> Str(<<"1", "E">>), named |-> TRUE, name |-> sFLUX, shown |-> TRUE,
      disp |-> sF104, cells |-> <<Flux987, Float32Cell(9)>>,
      text |-> <<Str(<<"9", "8", "7", ".", "6", "5", "4", "3">>),
                 Str(<<"-", "2", ".", "5", "0", "0", "0">>)>>],
     [form |-> Str(<<"1", "J">>), named |-> FALSE, name |-> <<>>, shown |-> FALSE,
      disp |-> <<>>, cells |-> <<Int32Cell(70000), Int32Cell(-1)>>, text |-> <<>>],
     [form |-> Str(<<"2", "A">>), named |-> TRUE, name |-> sID, shown |-> FALSE,
      disp |-> <<>>, cells |-> <<StringCell(Str(<<"a", "b">>)), StringCell(Str(<<"c", " ">>))>>,
      text |-> <<>>],
     [form |-> Str(<<"0", "I">>), named |-> TRUE, name |-> sGAP, shown |-> FALSE,
      disp |-> <<>>, cells |-> <<Cell(<<>>, "nil", <<>>), Cell(<<>>, "nil", <<>>)>>,
      text |-> <<>>]}

ColumnTables == UNION {SeqsOfLen(TableColumns, n) : n \in 1..MaxCols}

\* the bytes of row r of the columns cs
RECURSIVE ColumnRowBytes(_, _)
ColumnRowBytes(cs, r) ==
    IF cs = <<>> THEN <<>> ELSE cs[1].cells[r].bytes \o ColumnRowBytes(Tail(cs), r)

\* the TFORMn, TTYPEn and TDISPn cards of the columns from column i on
RECURSIVE ColumnCards(_, _)
ColumnCards(cs, i) ==
    IF i > Len(cs) THEN <<>>
    ELSE <<StringCard(Nth(kTFORM, i), cs[i].form)>>
             \o (IF cs[i].named THEN <<StringCard(Nth(kTTYPE, i), cs[i].name)>> ELSE <<>>)
             \o (IF cs[i].shown THEN <<StringCard(Nth(kTDISP, i), cs[i].disp)>> ELSE <<>>)
             \o ColumnCards(cs, i + 1)

\* a primary HDU without data, then the BINTABLE of the columns with two rows
ColumnStream(cs) ==
    Hdu(PrimaryCards(8, <<>>), <<>>, 0)
        \o Hdu(ExtensionCards(sBINTABLE, 8, <<Len(ColumnRowBytes(cs, 1)), 2>>)
                   \o PGCards \o <<IntCard(kTFIELDS, Len(cs))>> \o ColumnCards(cs, 1),
               ColumnRowBytes(cs, 1) \o ColumnRowBytes(cs, 2), BlockSize)

FieldInit ==
    /\ \E cs \in ColumnTables :
          /\ inp = [kind |-> "columns", cols |-> cs]
          /\ src = ColumnStream(cs)
    /\ pos = 0
    /\ b = NewReader
    /\ pc = "loop"
    /\ fits = NoUnits
    /\ err = "nil"
    /\ ret = [op |-> "none"]
    /\ calls = 0
    /\ lerr = "nil"
    /\ threads = <<>>

\* the columns and rows the calls ask for
AskedCols ==
    {ColInt(n) : n \in -1..Len(CurUnit.list)}
        \cup {ColStr(s) : s \in {sFLUX, sID, sGAP, Nth(kCOL, 1), Nth(kCOL, 2), sNOPE}}

AskedRows == -1..2

\* the cursor and b.elem of the FieldFunc a call ran, as the call r left them
CursorLeft(fs, i, r) ==
    IF i >= 0 /\ fs[Len(fs)].list[i + 1].set
    THEN [fs EXCEPT ![Len(fs)].list[i + 1].left = r.left,
                    ![Len(fs)].list[i + 1].elem = r.elem] ELSE fs

\* x := h.Field(col)(row), the first call on the table Open returned
FieldColCall ==
    /\ TableReady
    /\ ret.op = "Open"
    /\ \E col \in AskedCols, row \in AskedRows :
       \E f \in {Field(CurUnit, col)} :
       \E r \in {CallField(CurUnit, f, row)} :
          /\ fits' = CursorLeft(fits, f.i, r)
          /\ ret' = [op |-> "Field", col |-> col, row |-> row, x |-> r.x, panic |-> r.panic]
    /\ UNCHANGED <<src, pos, b, pc, err, calls, inp, lerr, threads>>

\* s := h.Format(col, row), the first call on the table Open returned
FormatCall ==
    /\ TableReady
    /\ ret.op = "Open"
    /\ \E col \in AskedCols, row \in AskedRows :
       \E r \in {Format(CurUnit, col, row)} :
          /\ fits' = CursorLeft(fits, r.i, r)
          /\ ret' = [op |-> "Format", col |-> col, row |-> row, s |-> r.s,
                     exact |-> r.exact, panic |-> r.panic]
    /\ UNCHANGED <<src, pos, b, pc, err, calls, inp, lerr, threads>>

FieldNext == OpenHeader \/ OpenClassify \/ OpenLoad \/ FieldColCall \/ FormatCall

SpecField == FieldInit /\ [][FieldNext]_vars

\* the columns (0-based) of the loaded table that have an accessor
WithAccessor == {i \in 0..(Len(CurUnit.list) - 1) : CurUnit.list[i + 1].set}

\* the value of column i in a row, nil outside the rows
CellOf(i, row) ==
    IF row >= 0 /\ row < 2 THEN inp.cols[i + 1].cells[row + 1].x ELSE vNilCell

\* C11: after loadTable, Field(i) and Field(name_i) return the value of column i in
\* the row, for every column i that has an accessor, name_i being what Keys holds for
\* TTYPE{i+1} (the header's TTYPE, or the default COL name).
FieldByNameAndByIndex ==
    (inp.kind = "columns" /\ ret.op = "Field") =>
        \A i \in WithAccessor :
            (ret.col = ColInt(i) \/ ret.col = ColStr(CurUnit.Keys[Nth(kTTYPE, i + 1)].v))
                => (~ret.panic /\ ret.x = CellOf(i, ret.row))

\* a col that names no column of the Unit
Unresolved(col) ==
    IF col.t = "int" THEN col.v < 0 \/ col.v >= Len(CurUnit.list)
    ELSE ~Has(CurUnit.fields, col.v)

\* C12: Format(col, row) does not panic and returns "" when col is an index outside
\* 0..len(list)-1 or a string that is not a registered field name.
FormatUnknownColumnIsEmpty ==
    (inp.kind = "columns" /\ ret.op = "Format" /\ Unresolved(ret.col)) =>
        (~ret.panic /\ ret.s = <<>>)

\* Format was asked for a cell of a FLUX column (TDISP F10.4), by index or by name, in
\* a table with one FLUX column
FluxFormatted(i) ==
    /\ inp.kind = "columns" /\ ret.op = "Format"
    /\ ret.row \in {0, 1}
    /\ i \in 1..Len(inp.cols) /\ inp.cols[i].name = sFLUX
    /\ \A j \in 1..Len(inp.cols) : inp.cols[j].name = sFLUX => j = i
    /\ ret.col \in {ColInt(i - 1), ColStr(sFLUX)}

\* C14: with TDISP F10.4 Format returns the value in fixed-point notation with 4
\* decimals and nothing else: "987.6543" for 987.654321.
FixedPointDigitsOnly ==
    \A i \in 1..MaxCols + 1 :
        FluxFormatted(i) => (~ret.panic /\ ret.exact /\ ret.s = inp.cols[i].text[ret.row + 1])

(***************************************************************************)
(* The row layout of binary tables                                         *)
(***************************************************************************)
MaxFields == 2

\* TFORM values rT and T: the repeat count (given or not) and the code
FormOf(given, r, code) == [given |-> given, r |-> r, code |-> code]

FormText(f) == (IF f.given THEN IntToStr(f.r) ELSE <<>>) \o <<f.code>>

LayoutForms ==
    {FormOf(TRUE, 3, 73), FormOf(TRUE, 1, 74), FormOf(FALSE, 1, 65), FormOf(TRUE, 5, 65),
     FormOf(FALSE, 1, 76), FormOf(TRUE, 2, 66), FormOf(TRUE, 1, 69), FormOf(FALSE, 1, 75),
     FormOf(TRUE, 0, 68), FormOf(TRUE, 2, 68), FormOf(TRUE, 1, 67), FormOf(TRUE, 2, 77),
     FormOf(TRUE, 0, 77)}

\* one layout with every code, besides all the layouts of up to MaxFields fields
EveryCode ==
    <<FormOf(FALSE, 1, 76), FormOf(TRUE, 3, 73), FormOf(TRUE, 2, 77), FormOf(TRUE, 0, 68),
      FormOf(TRUE, 5, 65), FormOf(TRUE, 1, 67), FormOf(TRUE, 2, 66), FormOf(TRUE, 1, 74),
      FormOf(FALSE, 1, 75), FormOf(TRUE, 1, 69), FormOf(TRUE, 2, 68), FormOf(FALSE, 1, 65)>>

FieldLayouts == UNION {SeqsOfLen(LayoutForms, n) : n \in 1..MaxFields} \cup {EveryCode}

\* the size of one element of a code, as the FITS standard and the claim give it
SizeOfCode(code) ==
    IF code \in {65, 76, 66} THEN 1 ELSE IF code = 73 THEN 2
    ELSE IF code \in {74, 69} THEN 4 ELSE IF code \in {75, 68, 67} THEN 8 ELSE 16

\* the bytes the fields before field i (1-based) take in a row
RECURSIVE BytesBefore(_, _)
BytesBefore(fs, i) ==
    IF i <= 1 THEN 0
    ELSE BytesBefore(fs, i - 1) + fs[i - 1].r * SizeOfCode(fs[i - 1].code)

RECURSIVE FormCards(_, _)
FormCards(fs, i) ==
    IF i > Len(fs) THEN <<>>
    ELSE <<StringCard(Nth(kTFORM, i), FormText(fs[i]))>> \o FormCards(fs, i + 1)

\* a primary HDU without data, then the BINTABLE of the fields with one row of zeros
LayoutStream(fs) ==
    Hdu(PrimaryCards(8, <<>>), <<>>, 0)
        \o Hdu(ExtensionCards(sBINTABLE, 8, <<BytesBefore(fs, Len(fs) + 1), 1>>)
                   \o PGCards \o <<IntCard(kTFIELDS, Len(fs))>> \o FormCards(fs, 1),
               <<>>, IF BytesBefore(fs, Len(fs) + 1) > 0 THEN BlockSize ELSE 0)

LayoutInit ==
    /\ \E fs \in FieldLayouts :
          /\ inp = [kind |-> "layout", forms |-> fs]
          /\ src = LayoutStream(fs)
    /\ pos = 0
    /\ b = NewReader
    /\ pc = "loop"
    /\ fits = NoUnits
    /\ err = "nil"
    /\ ret = [op |-> "none"]
    /\ calls = 0
    /\ lerr = "nil"
    /\ threads = <<>>

LayoutNext == OpenHeader \/ OpenClassify \/ OpenLoad

SpecLayout == LayoutInit /\ [][LayoutNext]_vars

\* the BINTABLE of the layout is loaded
LayoutLoaded ==
    /\ inp.kind = "layout"
    /\ Len(fits) = 2
    /\ CurUnit.class = sBINTABLE
    /\ CurUnit.dtype = "[]byte"

\* C13: in a loaded BINTABLE the offset captured for the accessor of field i is the sum
\* of repeat * size(code) over the fields before it; a field with repeat 0 has no
\* accessor and adds nothing.
BinaryOffsetsAreRunningSums ==
    LayoutLoaded =>
        /\ Len(CurUnit.list) = Len(inp.forms)
        /\ \A i \in 1..Len(inp.forms) :
              /\ CurUnit.list[i].set = (inp.forms[i].r > 0)
              /\ CurUnit.list[i].set => CurUnit.list[i].c = BytesBefore(inp.forms, i)

\* TFORM1 = 3I, TFORM2 = 1J: the offset of the second field is 6
OffsetSixWitness ==
    /\ LayoutLoaded
    /\ inp.forms = <<FormOf(TRUE, 3, 73), FormOf(TRUE, 1, 74)>>
    /\ CurUnit.list[2].set /\ CurUnit.list[2].c = 6

(***************************************************************************)
(* NewHeader on a header block with an unclosed string and cards after END *)
(***************************************************************************)
kOBSERVER == Str(<<"O", "B", "S", "E", "R", "V", "E", "R">>)
kHISTORY == Str(<<"H", "I", "S", "T", "O", "R", "Y">>)

\* a string literal of the content c, closed (followed by a comment) or left open
Literal(c, closed) ==
    IF closed THEN QuotedLiteral(c) \o Comment ELSE <<chQuote>> \o Quoted(c)

\* what the block holds after its END card
AfterEndKinds == {"nothing", "new key", "same key", "no value"}

AfterEnd(kind) ==
    IF kind = "new key" THEN <<IntCard(kOBSERVER, 7)>>
    ELSE IF kind = "same key" THEN <<StringCard(kAUTHOR, <<88>>)>>
    ELSE IF kind = "no value" THEN <<PadCard(kHISTORY)>>
    ELSE <<>>

StringHeader(c, closed, after) ==
    <<[t |-> "cards",
       cards |-> <<IntCard(kNAXIS, 0), ValueCard(kAUTHOR, Literal(c, closed)), EndCard>>
                     \o AfterEnd(after)]>>

CardsInit ==
    /\ \E c \in StringContents, closed \in BOOLEAN, after \in AfterEndKinds :
          /\ inp = [kind |-> "cards", key |-> kAUTHOR, content |-> c, closed |-> closed,
                    after |-> after]
          /\ src = StringHeader(c, closed, after)
    /\ pos = 0
    /\ b = NewReader
    /\ pc = "header"
    /\ fits = NoUnits
    /\ err = "nil"
    /\ ret = [op |-> "none"]
    /\ calls = 0
    /\ lerr = "nil"
    /\ threads = <<>>

CardsNext == NewHeaderCall

SpecCards == CardsInit /\ [][CardsNext]_vars

\* NewHeader has returned for a header block of CardsInit
CardsParsed == pc = "parsed" /\ inp.kind = "cards"

\* C15: a card whose string literal is left open at the end of the card makes
\* NewHeader report an error.
UnclosedStringIsFatal ==
    (CardsParsed /\ ~inp.closed) => ret.err # "nil"

\* the keys of the same header with nothing after its END card
KeysUpToEnd ==
    NewHeader(StringHeader(inp.content, inp.closed, "nothing"), NewReader, 0, FullIO).h.Keys

\* C16: after NewHeader returns, the keys are those of the cards before END (and END):
\* the cards after END in the same block add no key and change no value.
NothingAfterEndIsRead ==
    CardsParsed => ret.h.Keys = KeysUpToEnd

(***************************************************************************)
(* Open on streams that end inside a header                                *)
(***************************************************************************)
\* where the last header block is cut: after k bytes
CutLens == {1, CardLen, 3 * CardLen, 4 * CardLen}

\* the cards of the header the stream ends in (its END card is never reached)
LastHeaderCards(name) ==
    IF name = "primary image" THEN PrimaryCards(8, <<2>>)
    ELSE ExtensionCards(sIMAGE, 16, <<2>>) \o PGCards

\* the end of the stream: nothing more, a whole header block without END (the header
\* goes on in a block that never comes), or the first k bytes of a header block
StreamEnds ==
    {[t |-> "nothing"]}
        \cup {[t |-> "block", header |-> h] : h \in {"primary image", "image"}}
        \cup {[t |-> "cut", header |-> h, k |-> k] : h \in {"primary image", "image"}, k \in CutLens}

StreamEnd(e) ==
    IF e.t = "nothing" THEN <<>>
    ELSE IF e.t = "block" THEN <<[t |-> "cards", cards |-> LastHeaderCards(e.header)]>>
    ELSE <<[t |-> "bytes", bs |-> CardBlock(LastHeaderCards(e.header), 1), len |-> e.k]>>

\* the whole HDUs before the end: all of them with their blocks complete
WholeHdus == UNION {SeqsOfLen(HduNames \ {"primary cut"}, n) : n \in 0..(MaxHdus - 1)}

TruncInit ==
    /\ \E names \in WholeHdus, e \in StreamEnds :
          /\ inp = [kind |-> "truncated", hdus |-> names, end |-> e]
          /\ src = StreamOf(names) \o StreamEnd(e)
    /\ pos = 0
    /\ b = NewReader
    /\ pc = "loop"
    /\ fits = NoUnits
    /\ err = "nil"
    /\ ret = [op |-> "none"]
    /\ calls = 0
    /\ lerr = "nil"
    /\ threads = <<>>

TruncNext == OpenHeader \/ OpenLoopEnd \/ OpenClassify \/ OpenLoad

SpecTrunc == TruncInit /\ [][TruncNext]_vars

\* C19: on a stream that ends while a header is awaited or before its END card, fits
\* never holds a Unit for the header that did not reach END, and Open returns a nil
\* error when the end of the stream stops it.
IncompleteHeaderIsNoUnit ==
    inp.kind = "truncated" =>
        /\ Len(fits) <= Len(inp.hdus)
        /\ (pc = "done" /\ ret.exit \in {"header error", "EOF"}) => err = "nil"

(***************************************************************************)
(* Open on a source that fails                                             *)
(***************************************************************************)
\* the number of bytes the source delivers before it fails
FailPoints == {0, 1, BlockSize, BlockSize + 1, 2 * BlockSize}

BrokenInit ==
    /\ \E names \in UNION {SeqsOfLen(HduNames \ {"primary cut"}, n) : n \in 1..MaxHdus},
          k \in FailPoints :
          /\ k <= Len(Flat(StreamOf(names)))
          /\ inp = [kind |-> "broken", hdus |-> names, failAt |-> k]
          /\ src = StreamOf(names)
    /\ pos = 0
    /\ b = NewReader
    /\ pc = "loop"
    /\ fits = NoUnits
    /\ err = "nil"
    /\ ret = [op |-> "none"]
    /\ calls = 0
    /\ lerr = "nil"
    /\ threads = <<>>

BrokenNext == OpenHeader \/ OpenClassify \/ OpenLoad

SpecBroken == BrokenInit /\ [][BrokenNext]_vars

\* C20: once the source has answered an error other than io.EOF to the read of a header
\* block, Open does not return a nil error.
SourceFailureIsReported ==
    (inp.kind = "broken" /\ pc = "done" /\ ret.exit = "header error") => err # "nil"

\* a failure of the source while a data section is read panics in Reader.Read
DataFailurePanics ==
    (inp.kind = "broken" /\ inp.hdus[1] = "primary image" /\ inp.failAt = BlockSize
         /\ pc \notin {"loop", "body", "load"})
        => (pc = "panic" /\ Len(fits) = 1)

(***************************************************************************)
(* Open on streams of whole blocks: where headers and data sections start  *)
(***************************************************************************)
MaxExt == 2

\* an HDU of the stream: its class, the number of blocks of its header (END in the
\* last one) and its extents; the data are bytes (BITPIX = 8)
AlignedHdu(cls, hb, nx) == [cls |-> cls, hb |-> hb, nx |-> nx]

AlignedPrimaries == {AlignedHdu("primary", hb, <<>>) : hb \in 1..2}

AlignedExtensions ==
    {AlignedHdu("image", 1, <<0>>), AlignedHdu("image", 1, <<2>>), AlignedHdu("image", 2, <<2>>),
     AlignedHdu("bintable", 1, <<BlockSize, 0>>), AlignedHdu("bintable", 1, <<BlockSize, 1>>),
     AlignedHdu("bintable", 2, <<BlockSize + 1, 1>>), AlignedHdu("bintable", 1, <<BlockSize, 2>>),
     AlignedHdu("bintable", 2, <<BlockSize, 2>>)}

\* the bytes of the data section of an HDU (none when NAXIS = 0)
DataBytes(u) == IF u.nx = <<>> THEN 0 ELSE Product(u.nx)

\* the cards of HDU number j; FOO = j tells the headers apart
AlignedCards(u, j) ==
    (IF u.cls = "primary" THEN PrimaryCards(8, u.nx)
     ELSE IF u.cls = "image" THEN ExtensionCards(sIMAGE, 8, u.nx) \o PGCards
     ELSE ExtensionCards(sBINTABLE, 8, u.nx) \o PGCards \o <<IntCard(kTFIELDS, 0)>>)
        \o <<IntCard(sFOO, j)>>

\* the header in one block, or in two with END alone in the second; then the data
\* section in whole blocks
AlignedSegments(u, j) ==
    (IF u.hb = 1 THEN <<[t |-> "cards", cards |-> AlignedCards(u, j) \o <<EndCard>>]>>
     ELSE <<[t |-> "cards", cards |-> AlignedCards(u, j)],
            [t |-> "cards", cards |-> <<EndCard>>]>>)
        \o (IF DataBytes(u) > 0 THEN <<[t |-> "ramp", len |-> Blocks(DataBytes(u))]>> ELSE <<>>)

RECURSIVE AlignedStream(_, _)
AlignedStream(us, j) ==
    IF j > Len(us) THEN <<>> ELSE AlignedSegments(us[j], j) \o AlignedStream(us, j + 1)

\* the offset of the header of HDU j in a stream of whole blocks, and of its data
RECURSIVE HeaderStart(_, _)
HeaderStart(us, j) ==
    IF j <= 1 THEN 0
    ELSE HeaderStart(us, j - 1) + us[j - 1].hb * BlockSize
             + ((DataBytes(us[j - 1]) + BlockSize - 1) \div BlockSize) * BlockSize

DataStart(us, j) == HeaderStart(us, j) + us[j].hb * BlockSize

AlignInit ==
    /\ \E p \in AlignedPrimaries, n \in 1..MaxExt : \E es \in SeqsOfLen(AlignedExtensions, n) :
          /\ inp = [kind |-> "aligned", hdus |-> <<p>> \o es]
          /\ src = AlignedStream(<<p>> \o es, 1)
    /\ pos = 0
    /\ b = NewReader
    /\ pc = "loop"
    /\ fits = NoUnits
    /\ err = "nil"
    /\ ret = [op |-> "none"]
    /\ calls = 0
    /\ lerr = "nil"
    /\ threads = <<>>

AlignNext == OpenHeader \/ OpenClassify \/ OpenLoad

SpecAlign == AlignInit /\ [][AlignNext]_vars

\* the data of Unit j are the bytes of the stream at the start of its data section
DataFromItsBlock(j) ==
    fits[j].dtype \in {"[]byte"} =>
        fits[j].Data = SubSeq(Flat(src), DataStart(inp.hdus, j) + 1,
                              DataStart(inp.hdus, j) + DataBytes(inp.hdus[j]))

\* C21: on a stream of whole blocks, header j is parsed from the block at the offset
\* where the blocks of HDU j - 1 end, its data section is read from the first byte of
\* the block after the one holding END, and after the ceil(d / 2880) blocks of the data
\* the next header is paged in: no block is skipped or read twice.
BlocksStayAligned ==
    inp.kind = "aligned" =>
        /\ pc # "panic"
        /\ Len(fits) <= Len(inp.hdus)
        /\ \A j \in 1..Len(fits) : fits[j].Keys[sFOO] = vInt(j)
        /\ pc \in {"body", "load"} =>
               /\ pos = DataStart(inp.hdus, Len(fits))
               /\ b.left = b.right
        /\ pc = "loop" =>
               /\ pos = HeaderStart(inp.hdus, Len(fits) + 1)
               /\ \A j \in 1..Len(fits) : DataFromItsBlock(j)
        /\ pc = "done" =>
               /\ Len(fits) = Len(inp.hdus)
               /\ pos = Len(Flat(src))
               /\ \A j \in 1..Len(fits) : DataFromItsBlock(j)

\* Open has decoded a table of two blocks behind a two-block header and found the
\* header after it
TwoBlockDataWitness ==
    /\ inp.kind = "aligned" /\ pc = "done"
    /\ Len(fits) = 3
    /\ inp.hdus[2] = AlignedHdu("bintable", 2, <<BlockSize, 2>>)
    /\ Len(fits[2].Data) = 2 * BlockSize
    /\ fits[3].Keys[sFOO] = vInt(3)

(***************************************************************************)
(* Binary tables whose fields need more bytes than a row has               *)
(***************************************************************************)
RowForms == {FormOf(TRUE, 1, 74), FormOf(TRUE, 2, 73), FormOf(FALSE, 1, 66)}

RowLayouts == UNION {SeqsOfLen(RowForms, n) : n \in 1..MaxFields}

\* NAXIS1 as the fields need it, or only as long as the first field
RowWidths(fs) == {BytesBefore(fs, Len(fs) + 1), BytesBefore(fs, 2)}

\* a primary HDU without data, then the BINTABLE: w bytes a row, n rows, the blob
\* 1, 2, 3, ...
RowStream(fs, w, n) ==
    Hdu(PrimaryCards(8, <<>>), <<>>, 0)
        \o Hdu(ExtensionCards(sBINTABLE, 8, <<w, n>>)
                   \o PGCards \o <<IntCard(kTFIELDS, Len(fs))>> \o FormCards(fs, 1),
               [i \in 1..(w * n) |-> i], BlockSize)

RowInit ==
    /\ \E fs \in RowLayouts, n \in 1..MaxRows : \E w \in RowWidths(fs) :
          /\ inp = [kind |-> "rows", forms |-> fs, width |-> w, rows |-> n]
          /\ src = RowStream(fs, w, n)
    /\ pos = 0
    /\ b = NewReader
    /\ pc = "loop"
    /\ fits = NoUnits
    /\ err = "nil"
    /\ ret = [op |-> "none"]
    /\ calls = 0
    /\ lerr = "nil"
    /\ threads = <<>>

RowNext == OpenHeader \/ OpenClassify \/ OpenLoad \/ FieldCall

SpecRow == RowInit /\ [][RowNext]_vars

\* C22: in a loaded BINTABLE the offset of each field plus repeat * size stays within
\* Naxis[0], and a call of an accessor with a row of the table reads bytes of that row
\* only: it does not fail and leaves the cursor at most at the end of the row.
FieldsLieInRow ==
    (inp.kind = "rows" /\ TableReady) =>
        /\ \A i \in 1..Len(CurUnit.list) :
              CurUnit.list[i].set =>
                  CurUnit.list[i].c + CurUnit.list[i].repeat * BinElemLen(CurUnit.list[i].code)
                      <= CurUnit.Naxis[1]
        /\ (ret.op = "field" /\ ~BadRow(CurUnit, ret.row)) =>
              /\ ~ret.panic
              /\ CurUnit.list[ret.i].left <= (ret.row + 1) * CurUnit.Naxis[1]

(***************************************************************************)
(* Open on finite streams, run to its end                                  *)
(***************************************************************************)
FiniteHdus ==
    {"primary", "primary image", "primary cut", "random groups", "image", "bintable",
     "table bitpix 16", "unknown"}

\* readers that answer io.EOF in the end: whole blocks and then EOF alone, the last
\* bytes together with EOF, and half a block at a time
FinitePolicies ==
    {FullIO,
     [chunk |-> BlockSize, dataEOF |-> TRUE, kind |-> "reader"],
     [chunk |-> BlockSize \div 2, dataEOF |-> FALSE, kind |-> "reader"]}

FiniteEnds == {[t |-> "nothing"], [t |-> "cut", header |-> "image", k |-> CardLen]}

FiniteInit ==
    /\ \E n \in 1..MaxHdus : \E names \in SeqsOfLen(FiniteHdus, n) :
       \E e \in FiniteEnds, io \in FinitePolicies :
          /\ \A i \in 1..(n - 1) : names[i] # "primary cut"
          /\ names[n] = "primary cut" => e.t = "nothing"
          /\ inp = [kind |-> "finite", hdus |-> names, end |-> e, io |-> io]
          /\ src = StreamOf(names) \o StreamEnd(e)
    /\ pos = 0
    /\ b = NewReader
    /\ pc = "loop"
    /\ fits = NoUnits
    /\ err = "nil"
    /\ ret = [op |-> "none"]
    /\ calls = 0
    /\ lerr = "nil"
    /\ threads = <<>>

FiniteNext == OpenHeader \/ OpenLoopEnd \/ OpenClassify \/ OpenLoad

\* Open has returned or panicked
OpenEnded == pc \in {"done", "panic"}

\* Open takes its next step.  Every step of FiniteNext moves pc, and one of its steps
\* is possible in every state in which Open has not ended (EveryStepMovesOn, and
\* SpecFiniteStops has no state without a next state), so the steps of Open are the
\* steps that move pc.
OpenSteps == ~OpenEnded /\ pc' \in {"loop", "body", "load", "done", "panic"} /\ pc' # pc

\* Open is a sequential function that runs until it returns: a step that is possible
\* is not put off for ever
SpecFinite == FiniteInit /\ [][FiniteNext]_vars /\ WF_pc(OpenSteps)

\* every step of Open is a step of OpenSteps
EveryStepMovesOn == [][~OpenEnded /\ pc' # pc]_vars

\* Open with a step that repeats the state it has ended in: a state without a next
\* state would be one in which Open is stuck before it has ended
SpecFiniteStops ==
    FiniteInit /\ [][FiniteNext \/ (OpenEnded /\ UNCHANGED vars)]_vars

\* C23: on a finite stream Open ends (it returns, or panics); every iteration that
\* does not end the loop takes bytes from the source, and once the Reader has met the
\* end of the stream IsEOF stays true.
OpenTerminates ==
    /\ <>OpenEnded
    /\ [][(pc = "loop" /\ ~OpenEnded') => pos' > pos]_vars
    /\ [][IsEOF(b) => IsEOF(b')]_vars

\* Open has returned because a data read met the end of the stream
EndedAtEOFWitness ==
    /\ inp.kind = "finite"
    /\ pc = "done" /\ ret.exit = "EOF"
    /\ IsEOF(b)
    /\ Len(fits) = Len(inp.hdus)

====
